---- MODULE Spec2Model ----
(***************************************************************************)
(* A model of the Lox front end and tree-walking interpreter:              *)
(* Parser (lox_parser/src/parser.rs), Resolver (lox_resolver), Interpreter *)
(* (lox_interpreter) and the driver run() (lox_interpreter_cli); the Lexer *)
(* (lox_lexer) on texts of characters and the bytecode encoder             *)
(* (lox_bytecode_ops, lox_macros) are modelled on their own.               *)
(*                                                                         *)
(* A source text is modelled after lexing, as its sequence of tokens; a    *)
(* token is the string that spells it.  Positions and spans count tokens.  *)
(***************************************************************************)
EXTENDS Integers, Sequences, FiniteSets, TLC

VARIABLES
    src,        \* the token sequence handed to run()
    mode,       \* "run": the driver run(src); "embed": a host that calls
                \* parse, resolve and interpret itself and does not stop on
                \* the resolver's diagnostics
    pc,         \* the driver's position
    parser,     \* Parser: [pos, errors] (lexer cursor with the one-token buffer, self.errors)
    statements, \* the `statements` vector of Parser::parse
    ast,        \* the Ast given to the resolver and the interpreter
    rerrors,    \* the resolver's errors
    interp,     \* Interpreter and the heap of reference-counted objects
    next_stmt,  \* index of the next statement of Interpreter::interpret's loop
    outcome,    \* what the stage that ended the run returned
    ran,        \* the stages that were started
    lexer,      \* a Lexer on a text of characters: [src, chars, byte_pos]
    lexed,      \* the tokens its next_token returned, and whether a call panicked
    operations, \* a slice of bytecode Operations given to Encode
    writer,     \* the OpWriter the slice is encoded into: [buf]
    encoded,    \* how many operations of the slice the encode loop has written
    flushed     \* what OpWriter::flush returned, once it was called

vars == <<src, mode, pc, parser, statements, ast, rerrors, interp, next_stmt, outcome, ran>>
lexvars == <<lexer, lexed>>
codecvars == <<operations, writer, encoded, flushed>>
unitvars == <<lexvars, codecvars>>
allvars == <<vars, unitvars>>

None == <<>>
Some(x) == <<x>>
is_some(o) == o # <<>>
unwrap(o) == o[1]

\* `let x = e;` followed by the rest of the function, which sees e as x.  The
\* comparison has e evaluated here, before the rest, as the statement order of
\* the source has it.
With(e, F(_)) == IF e = e THEN F(e) ELSE F(e)
\* `let x = r?;` followed by the rest of the function: a result that is not
\* Ok is what the function returns.
Try(r, F(_)) == IF r.st # "ok" THEN r ELSE F(r)

(***************************************************************************)
(* Tokens                                                                  *)
(***************************************************************************)
Keywords == {"and", "class", "else", "false", "for", "fun", "if", "nil", "or",
             "print", "return", "super", "this", "true", "var", "while"}

Punctuators == {"!", "!=", ",", ".", "=", "==", ">", ">=", "<", "<=", "{", "}",
                "(", ")", "+", "-", "*", ";", "/", "?", ":"}

\* The lexer's error markers, which reach the parser as ordinary tokens.
ErrorTokens == {"UNKNOWN", "UNTERMINATED_STRING", "UNTERMINATED_COMMENT"}

\* Number literals of the modelled sources: NumberTokens[n + 1] spells n.
NumberTokens == <<"0", "1", "2", "3", "4", "5", "6", "7", "8", "9">>

\* String literals of the modelled sources: <<spelling, contents>>.
StringTokens == << <<"''", "">>, <<"'a'", "a">>, <<"'b'", "b">>, <<"'hello'", "hello">>,
                   <<"'never'", "never">>, <<"'A'", "A">>, <<"'B'", "B">>,
                   <<"'own'", "own">>, <<"'field'", "field">> >>

IsNumberToken(t) == \E i \in 1..Len(NumberTokens) : NumberTokens[i] = t
NumberOf(t) == (CHOOSE i \in 1..Len(NumberTokens) : NumberTokens[i] = t) - 1
IsStringToken(t) == \E i \in 1..Len(StringTokens) : StringTokens[i][1] = t
StringOf(t) == StringTokens[CHOOSE i \in 1..Len(StringTokens) : StringTokens[i][1] = t][2]
IsIdentifier(t) ==
    /\ t \notin Keywords \cup Punctuators \cup ErrorTokens \cup {"EOF"}
    /\ ~IsNumberToken(t)
    /\ ~IsStringToken(t)

(***************************************************************************)
(* Spans                                                                   *)
(***************************************************************************)
Span(start, end) == [start |-> start, end |-> end]
Span_dummy == Span(0, 0)
Span_extends_with(self, end) == Span(self.start, end.end)
Span_extends_with_pos(self, end) == Span(self.start, end)

(***************************************************************************)
(* AST                                                                     *)
(***************************************************************************)
Ident_from_name(name, span) == [name |-> name, span |-> span]
Variable_from_ident(ident) == [ident |-> ident, target |-> None]
Variable_from_name(name, span) == Variable_from_ident(Ident_from_name(name, span))
IdentTarget(scope_count, index) == [scope_count |-> scope_count, index |-> index]

LitNumber(n) == [t |-> "Number", v |-> n]
LitString(s) == [t |-> "String", v |-> s]
LitBool(b) == [t |-> "Bool", v |-> b]
LitNil == [t |-> "Nil", v |-> 0]

Expr_literal(value, span) == [k |-> "Literal", value |-> value, span |-> span]
Expr_group(expr, start, end) == [k |-> "Group", expr |-> expr, span |-> Span(start, end)]
Expr_binary(operator, left, right) ==
    [k |-> "Binary", operator |-> operator, left |-> left, right |-> right]
Expr_unary(operator, op_span, operand) ==
    [k |-> "Unary", operator |-> operator, op_span |-> op_span, operand |-> operand]
Expr_ternary(condition, truthy, falsy) ==
    [k |-> "Ternary", condition |-> condition, truthy |-> truthy, falsy |-> falsy]
Expr_assign(var, value) == [k |-> "Assign", var |-> var, value |-> value]
Expr_var(var) == [k |-> "Var", var |-> var]
Expr_get(object, field) == [k |-> "Get", object |-> object, field |-> field]
Expr_set(get, value) == [k |-> "Set", target |-> get, value |-> value]
Expr_super(var, method) == [k |-> "Super", var |-> var, method |-> method]
Expr_fn_call(callee, arguments, end) ==
    [k |-> "FnCall", callee |-> callee, arguments |-> arguments, end |-> end]

RECURSIVE Expr_get_span(_)
Expr_get_span(e) ==
    CASE e.k = "Binary" -> Span_extends_with(Expr_get_span(e.left), Expr_get_span(e.right))
      [] e.k = "Unary" -> Span_extends_with(e.op_span, Expr_get_span(e.operand))
      [] e.k = "Group" -> e.span
      [] e.k = "Literal" -> e.span
      [] e.k = "Ternary" ->
            Span_extends_with(Expr_get_span(e.condition), Expr_get_span(e.falsy))
      [] e.k = "Assign" -> Span_extends_with(e.var.ident.span, Expr_get_span(e.value))
      [] e.k = "Var" -> e.var.ident.span
      [] e.k = "FnCall" -> Span_extends_with_pos(Expr_get_span(e.callee), e.end)
      [] e.k = "Get" -> Span_extends_with(Expr_get_span(e.object), e.field.span)
      [] e.k = "Set" ->
            Span_extends_with(Expr_get_span(e.target.object), Expr_get_span(e.value))
      [] e.k = "Super" -> Span_extends_with(e.var.ident.span, e.method.span)

Block_new(stmts) == [k |-> "Block", statements |-> stmts, num_of_locals |-> 0]

(***************************************************************************)
(* Operator precedence (lox_parser/src/precedence.rs)                      *)
(***************************************************************************)
\* A fixity under which every operator groups to the left.
Operator_fixity_left(self) == "Left"

Operator_fixity(self) == IF self \in {"Ternary", "Assign"} THEN "Right" ELSE "Left"

Operator_precedence(self) ==
    CASE self \in {"FnCall", "Dot"} -> 15
      [] self = "Prefix" -> 14
      [] self \in {"Multiply", "Divide"} -> 13
      [] self \in {"Minus", "Plus"} -> 12
      [] self \in {"Greater", "GreaterEqual", "Less", "LessEqual", "NotEqual", "Equal"} -> 11
      [] self = "And" -> 10
      [] self = "Or" -> 9
      [] self = "Ternary" -> 4
      [] self = "Assign" -> 2
      [] self = "None" -> 0

Operator_is_precedent_than(self, left_op) ==
    IF Operator_precedence(self) < Operator_precedence(left_op) THEN FALSE
    ELSE IF Operator_precedence(self) = Operator_precedence(left_op)
         THEN Operator_fixity(self) = "Right"
         ELSE TRUE

Operator_from_token(t) ==
    CASE t = "=" -> Some("Assign")
      [] t = "." -> Some("Dot")
      [] t = "!=" -> Some("NotEqual")
      [] t = "==" -> Some("Equal")
      [] t = ">" -> Some("Greater")
      [] t = ">=" -> Some("GreaterEqual")
      [] t = "<" -> Some("Less")
      [] t = "<=" -> Some("LessEqual")
      [] t = "-" -> Some("Minus")
      [] t = "+" -> Some("Plus")
      [] t = "/" -> Some("Divide")
      [] t = "*" -> Some("Multiply")
      [] t = "and" -> Some("And")
      [] t = "or" -> Some("Or")
      [] t = "?" -> Some("Ternary")
      [] t = "(" -> Some("FnCall")
      [] OTHER -> None

\* impl From<TokenType> for BinaryOp
BinaryOp_from(t) ==
    CASE t = "!=" -> "NotEqual"
      [] t = "==" -> "Equal"
      [] t = ">" -> "Greater"
      [] t = ">=" -> "GreaterEqual"
      [] t = "and" -> "And"
      [] t = "or" -> "Or"
      [] t = "<" -> "Less"
      [] t = "<=" -> "LessEqual"
      [] t = "-" -> "Minus"
      [] t = "+" -> "Plus"
      [] t = "/" -> "Divide"
      [] t = "*" -> "Multiply"

\* impl From<TokenType> for UnaryOp
UnaryOp_from(t) == IF t = "!" THEN "Not" ELSE "Negative"

(***************************************************************************)
(* Lexer (lox_lexer/src/lib.rs)                                            *)
(*                                                                         *)
(* The Lexer struct is [src, chars, byte_pos]: src is the text as a        *)
(* sequence of one-character strings, each of one byte; chars is the       *)
(* number of characters the iterator `chars` has yielded; byte_pos is the  *)
(* field of that name.  A method returns [st, l, val]: st = "ok" with the  *)
(* lexer after the call and the value, or st = "panic" when the call       *)
(* reached todo!().                                                        *)
(***************************************************************************)
\* Stands for '\0', which no modelled text contains.
EOF_CHAR == "NUL"

LowerCase == {"a", "b", "c", "d", "e", "f", "g", "h", "i", "j", "k", "l", "m",
              "n", "o", "p", "q", "r", "s", "t", "u", "v", "w", "x", "y", "z"}
UpperCase == {"A", "B", "C", "D", "E", "F", "G", "H", "I", "J", "K", "L", "M",
              "N", "O", "P", "Q", "R", "S", "T", "U", "V", "W", "X", "Y", "Z"}

is_whitespace(c) == c \in {"\t", "\n", "\r", " "}
is_digit(c) == IsNumberToken(c)
is_ident_start(c) == c = "_" \/ c \in LowerCase \/ c \in UpperCase
is_ident_continue(c) == is_ident_start(c) \/ is_digit(c)

\* The characters of s as one string.
RECURSIVE Join(_)
Join(s) == IF s = <<>> THEN "" ELSE Join(SubSeq(s, 1, Len(s) - 1)) \o s[Len(s)]

LexOk(l, val) == [st |-> "ok", l |-> l, val |-> val]
Todo(l) == [st |-> "panic", l |-> l, val |-> None]

TokenType(t, v) == [t |-> t, v |-> v]
Token(token_type, span) == [token_type |-> token_type, span |-> span]

Lexer_new(text) == [src |-> text, chars |-> 0, byte_pos |-> 0]

\* The record of the calls of next_token: none yet.
NothingLexed == [tokens |-> <<>>, panicked |-> FALSE]

Lexer_yield_token(l, token_type, start) == Token(token_type, Span(start, l.byte_pos))

Lexer_peek(l) == IF l.chars < Len(l.src) THEN l.src[l.chars + 1] ELSE EOF_CHAR
Lexer_peek_next(l) == IF l.chars + 1 < Len(l.src) THEN l.src[l.chars + 2] ELSE EOF_CHAR
Lexer_get_current_pos(l) == l.chars
Lexer_update_byte_pos(l) == [l EXCEPT !.byte_pos = l.chars]
Lexer_is_eof(l) == l.chars = Len(l.src)

\* bump: the lexer after chars.next(); what it returned is Lexer_bumped of the
\* lexer before.
Lexer_bump(l) == IF Lexer_is_eof(l) THEN l ELSE [l EXCEPT !.chars = @ + 1]
Lexer_bumped(l) == IF Lexer_is_eof(l) THEN None ELSE Some(l.src[l.chars + 1])

Lexer_test_and_bump(l, c) ==
    IF Lexer_peek(l) = c THEN [l |-> Lexer_bump(l), val |-> TRUE] ELSE [l |-> l, val |-> FALSE]

\* The characters of the text of l that pass the predicate.
Passing(l, predicate(_)) == {c \in {l.src[i] : i \in DOMAIN l.src} : predicate(c)}

\* skip_white: the cursor moves to the first character from it on that is not
\* among the passing ones, or to the end.
Lexer_skip_white(l, passing) ==
    [l EXCEPT !.chars =
        CHOOSE n \in l.chars..Len(l.src) :
            /\ n = Len(l.src) \/ l.src[n + 1] \notin passing
            /\ \A m \in l.chars..(n - 1) : l.src[m + 1] \in passing]

\* The `while let` loop of skip_multiline_comment: [l, closed].
RECURSIVE Lexer_comment_loop(_, _)
Lexer_comment_loop(l, level) ==
    IF Lexer_is_eof(l) THEN [l |-> l, closed |-> FALSE]
    ELSE With(Lexer_peek(l), LAMBDA c :
         With(Lexer_bump(l), LAMBDA l1 :
         CASE c = "/" /\ Lexer_peek(l1) = "*" -> Lexer_comment_loop(Lexer_bump(l1), level + 1)
           [] c = "*" /\ Lexer_peek(l1) = "/" ->
                 IF level - 1 = 0 THEN [l |-> Lexer_bump(l1), closed |-> TRUE]
                 ELSE Lexer_comment_loop(Lexer_bump(l1), level - 1)
           [] OTHER -> Lexer_comment_loop(l1, level)))

\* A skip_multiline_comment that ends the comment at the first `*/` after the
\* opening, whatever the level.
Lexer_skip_multiline_comment_flat(l) ==
    IF \E n \in (l.chars + 2)..(Len(l.src) - 2) : l.src[n + 1] = "*" /\ l.src[n + 2] = "/"
    THEN [l |-> [l EXCEPT !.chars =
                    2 + CHOOSE n \in (l.chars + 2)..(Len(l.src) - 2) :
                            /\ l.src[n + 1] = "*" /\ l.src[n + 2] = "/"
                            /\ \A m \in (l.chars + 2)..(n - 1) :
                                  ~(l.src[m + 1] = "*" /\ l.src[m + 2] = "/")],
          val |-> None]
    ELSE [l |-> [l EXCEPT !.chars = Len(l.src)],
          val |-> Some(Lexer_yield_token(l, TokenType("UnterminatedComment", ""), l.byte_pos))]

\* skip_multiline_comment: [l, val], val the Option<Token>.
Lexer_skip_multiline_comment(l) ==
    With(Lexer_comment_loop(Lexer_bump(Lexer_bump(l)), 1), LAMBDA r :
    [l |-> r.l,
     val |-> IF r.closed THEN None
             ELSE Some(Lexer_yield_token(r.l, TokenType("UnterminatedComment", ""),
                                         l.byte_pos))])

\* skip: [l, val], val the Option<Token>.
RECURSIVE Lexer_skip(_)
Lexer_skip(l) ==
    CASE Lexer_peek(l) = "/" ->
            IF Lexer_peek_next(l) = "/"
            THEN Lexer_skip(Lexer_skip_white(l, Passing(l, LAMBDA c : c # "\n" /\ c # "\r")))
            ELSE IF Lexer_peek_next(l) = "*"
            THEN With(Lexer_skip_multiline_comment(l), LAMBDA comments :
                 IF is_some(comments.val) THEN comments ELSE Lexer_skip(comments.l))
            ELSE [l |-> l, val |-> None]
      [] is_whitespace(Lexer_peek(l)) -> Lexer_skip(Lexer_bump(l))
      [] OTHER -> [l |-> l, val |-> None]

\* The loop of string, result being the characters pushed so far.
RECURSIVE Lexer_string_loop(_, _)
Lexer_string_loop(l, result) ==
    IF Lexer_is_eof(l) THEN LexOk(l, TokenType("UnterminatedString", ""))
    ELSE With(Lexer_peek(l), LAMBDA c :
         With(Lexer_bump(l), LAMBDA l1 :
         CASE c = "\\" ->
                 With(Lexer_peek(l1), LAMBDA escaped :
                 With(Lexer_bump(l1), LAMBDA l2 :
                 CASE escaped = "\\" -> Lexer_string_loop(l2, Append(result, "\\"))
                   [] escaped = "n" -> Lexer_string_loop(l2, Append(result, "\n"))
                   [] escaped = "r" -> Lexer_string_loop(l2, Append(result, "\r"))
                   [] escaped = "t" -> Lexer_string_loop(l2, Append(result, "\t"))
                   [] escaped = "\"" -> Lexer_string_loop(l2, Append(result, "\""))
                   [] OTHER -> Todo(l2)))
           [] c = "\"" -> LexOk(l1, TokenType("String", Join(result)))
           [] OTHER -> Lexer_string_loop(l1, Append(result, c))))

Lexer_string(l) == Lexer_string_loop(l, <<>>)

Lexer_identifier(l) ==
    With(Lexer_skip_white(l, Passing(l, is_ident_continue)), LAMBDA l1 :
    With(Join(SubSeq(l.src, l.byte_pos + 1, Lexer_get_current_pos(l1))), LAMBDA ident :
    LexOk(l1, IF ident \in Keywords THEN TokenType("Keyword", ident)
              ELSE TokenType("Identifier", ident))))

\* str::parse::<f64> on digits with at most one dot inside: <<n, d>> stands for
\* n / 10^d, with no trailing zero counted in d.
RECURSIVE DigitsValue(_)
DigitsValue(s) ==
    IF s = <<>> THEN 0 ELSE 10 * DigitsValue(SubSeq(s, 1, Len(s) - 1)) + NumberOf(s[Len(s)])
RECURSIVE Decimal(_, _)
Decimal(n, d) == IF d > 0 /\ n % 10 = 0 THEN Decimal(n \div 10, d - 1) ELSE <<n, d>>
ParseF64(s) ==
    IF \E i \in DOMAIN s : s[i] = "."
    THEN With(CHOOSE i \in DOMAIN s : s[i] = ".", LAMBDA dot :
         Decimal(DigitsValue(SubSeq(s, 1, dot - 1) \o SubSeq(s, dot + 1, Len(s))), Len(s) - dot))
    ELSE <<DigitsValue(s), 0>>

Lexer_number(l) ==
    With(Lexer_skip_white(l, Passing(l, is_digit)), LAMBDA l1 :
    With(IF Lexer_peek(l1) = "." /\ is_digit(Lexer_peek_next(l1))
         THEN Lexer_skip_white(Lexer_bump(l1), Passing(l, is_digit))
         ELSE l1, LAMBDA l2 :
    LexOk(l2, TokenType("Number",
                        ParseF64(SubSeq(l.src, l.byte_pos + 1, Lexer_get_current_pos(l2)))))))

\* The `match first_char` of next_token (lines 57-103).
Lexer_token_type(l, first_char) ==
    CASE first_char \in {"!", "=", ">", "<"} ->
            With(Lexer_test_and_bump(l, "="), LAMBDA eq :
            LexOk(eq.l, TokenType("Punctuator", IF eq.val THEN first_char \o "=" ELSE first_char)))
      [] first_char \in {",", ".", "{", "}", "(", ")", "+", "-", "*", ";", "/", "?", ":"} ->
            LexOk(l, TokenType("Punctuator", first_char))
      [] first_char = "\"" -> Lexer_string(l)
      [] is_digit(first_char) -> Lexer_number(l)
      [] is_ident_start(first_char) -> Lexer_identifier(l)
      [] OTHER -> LexOk(l, TokenType("Unknown", first_char))

Lexer_next_token(l) ==
    With(Lexer_skip(l), LAMBDA skipped :
    IF is_some(skipped.val) THEN LexOk(skipped.l, unwrap(skipped.val))
    ELSE With(Lexer_update_byte_pos(skipped.l), LAMBDA l1 :
         IF ~is_some(Lexer_bumped(l1))
         THEN LexOk(l1, Lexer_yield_token(l1, TokenType("Eof", ""), l1.byte_pos))
         ELSE Try(Lexer_token_type(Lexer_bump(l1), unwrap(Lexer_bumped(l1))), LAMBDA tt :
              LexOk(tt.l, Lexer_yield_token(tt.l, tt.val, l1.byte_pos)))))

(***************************************************************************)
(* Parser (lox_parser/src/parser.rs)                                       *)
(*                                                                         *)
(* The Parser struct is [pos, errors]: pos is the index in src of the      *)
(* token that look_ahead() shows (the lexer cursor together with the       *)
(* one-token buffer `token`), errors is self.errors.  Every method takes   *)
(* the struct and returns [st, p, val]: st = "ok" with the value, st =     *)
(* "err" with the boxed ParserError, or st = "spin" when the call never    *)
(* returns (see Parser_block).                                             *)
(***************************************************************************)
Parser_new == [pos |-> 1, errors |-> <<>>]

Ok(p, val) == [st |-> "ok", p |-> p, val |-> val]
Err(p, err) == [st |-> "err", p |-> p, val |-> err]
Spin(p) == [st |-> "spin", p |-> p, val |-> None]

\* Lexer::next_token seen from the parser: past the last token it returns Eof,
\* and Eof again on every later call.
Lexer_token_at(pos) == IF pos <= Len(src) THEN src[pos] ELSE "EOF"

Parser_look_ahead(p) == Lexer_token_at(p.pos)
\* The span of the token next_token() returns, in tokens.  Lexer::yield_token
\* ends the span at the lexer's byte_pos, which next_token sets once, where the
\* token starts (lox_lexer/src/lib.rs lines 49-50 and 108-116): the span of
\* every token is empty.
Parser_token_span(p) ==
    IF p.pos <= Len(src) THEN Span(p.pos, p.pos) ELSE Span(Len(src) + 1, Len(src) + 1)
\* The parser after next_token().
Parser_next_token(p) == [p EXCEPT !.pos = IF p.pos <= Len(src) THEN p.pos + 1 ELSE p.pos]

UnexpectedToken(t, span) == [e |-> "UnexpectedToken", found |-> t, span |-> span]
ExpectStructure(expected, found, span) ==
    [e |-> "ExpectStructure", expected |-> expected, found |-> found, span |-> span]
TooManyParameters(span) == [e |-> "TooManyParameters", span |-> span]
InvalidLeftValue(span) == [e |-> "InvalidLeftValue", span |-> span]

\* macro eat!: the span of the next token when it is token_type, else the
\* function returns Err(UnexpectedToken).
eat(p, token_type) ==
    IF Parser_look_ahead(p) = token_type
    THEN Ok(Parser_next_token(p), Parser_token_span(p))
    ELSE Err(Parser_next_token(p), UnexpectedToken(Parser_look_ahead(p), Parser_token_span(p)))

Parser_get_identifier(p) ==
    IF IsIdentifier(Parser_look_ahead(p))
    THEN Ok(Parser_next_token(p), Ident_from_name(Parser_look_ahead(p), Parser_token_span(p)))
    ELSE Err(Parser_next_token(p),
             ExpectStructure("identifier", Parser_look_ahead(p), Parser_token_span(p)))

\* The recursive descent re-enters itself through one operator: a call of a
\* parsing function that is defined further down is written Call_<function>
\* and reaches the function through Parser_call, which selects it by name.
RECURSIVE Parser_call(_, _)
Call_Parser_expression(p) == Parser_call("Parser_expression", <<p>>)
Call_Parser_fn_call_arguments(p, arguments) == Parser_call("Parser_fn_call_arguments", <<p, arguments>>)
Call_Parser_fn_call(p, callee) == Parser_call("Parser_fn_call", <<p, callee>>)
Call_Parser_expr_prefix(p) == Parser_call("Parser_expr_prefix", <<p>>)
Call_Parser_expr_loop(p, op, expr) == Parser_call("Parser_expr_loop", <<p, op, expr>>)
Call_Parser_expr_precedence(p, op) == Parser_call("Parser_expr_precedence", <<p, op>>)
Call_Parser_function(p) == Parser_call("Parser_function", <<p>>)
Call_Parser_class_methods(p, methods) == Parser_call("Parser_class_methods", <<p, methods>>)
Call_Parser_class(p) == Parser_call("Parser_class", <<p>>)
Call_Parser_declaration(p) == Parser_call("Parser_declaration", <<p>>)
Call_Parser_if_statement(p) == Parser_call("Parser_if_statement", <<p>>)
Call_Parser_while_statement(p) == Parser_call("Parser_while_statement", <<p>>)
Call_Parser_for_statement(p) == Parser_call("Parser_for_statement", <<p>>)
Call_Parser_statement(p) == Parser_call("Parser_statement", <<p>>)
Call_Parser_block_pass(p) == Parser_call("Parser_block_pass", <<p>>)
Call_Parser_block_loop(p, stmts) == Parser_call("Parser_block_loop", <<p, stmts>>)
Call_Parser_block(p) == Parser_call("Parser_block", <<p>>)

Parser_expression(p) == Call_Parser_expr_precedence(p, "None")

\* The argument loop of fn_call (lines 442-452), entered when the next token
\* is not `)`.
Parser_fn_call_arguments(p, arguments) ==
    Try(Call_Parser_expression(p), LAMBDA a :
    IF Parser_look_ahead(a.p) = ","
    THEN Call_Parser_fn_call_arguments(Parser_next_token(a.p), Append(arguments, a.val))
    ELSE Ok(a.p, Append(arguments, a.val)))

Parser_fn_call(p, callee) ==
    Try(IF Parser_look_ahead(p) # ")"
        THEN Call_Parser_fn_call_arguments(p, <<>>)
        ELSE Ok(p, <<>>), LAMBDA args :
    Try(eat(args.p, ")"), LAMBDA close : Ok(close.p, Expr_fn_call(callee, args.val, close.val.end))))

\* The prefix part of expr_precedence (lines 348-400).
Parser_expr_prefix(p) ==
    With(Parser_look_ahead(p), LAMBDA t :
    With(Parser_token_span(p), LAMBDA span :
    With(Parser_next_token(p), LAMBDA p1 :
    CASE t = "false" -> Ok(p1, Expr_literal(LitBool(FALSE), span))
      [] t = "true" -> Ok(p1, Expr_literal(LitBool(TRUE), span))
      [] t = "nil" -> Ok(p1, Expr_literal(LitNil, span))
      [] t = "this" -> Ok(p1, Expr_var(Variable_from_name("this", span)))
      [] t = "super" ->
            Try(eat(p1, "."), LAMBDA dot :
            Try(Parser_get_identifier(dot.p), LAMBDA method :
            Ok(method.p,
               Expr_super(Variable_from_name("super", span), method.val))))
      [] t \in Keywords \ {"false", "true", "nil", "this", "super"} ->
            Err(p1, UnexpectedToken(t, span))
      [] t = "(" ->
            Try(Call_Parser_expression(p1), LAMBDA grouped :
            Try(eat(grouped.p, ")"), LAMBDA close :
            Ok(close.p, Expr_group(grouped.val, span.start, close.val.end))))
      [] IsNumberToken(t) -> Ok(p1, Expr_literal(LitNumber(NumberOf(t)), span))
      [] IsStringToken(t) -> Ok(p1, Expr_literal(LitString(StringOf(t)), span))
      [] t \in {"!", "-"} ->
            Try(Call_Parser_expr_precedence(p1, "Prefix"), LAMBDA operand :
            Ok(operand.p, Expr_unary(UnaryOp_from(t), span, operand.val)))
      [] IsIdentifier(t) -> Ok(p1, Expr_var(Variable_from_name(t, span)))
      [] OTHER -> Err(p1, ExpectStructure("expression", t, span)))))

\* The operator loop of expr_precedence (lines 402-434).
Parser_expr_loop(p, op, expr) ==
    With(Operator_from_token(Parser_look_ahead(p)), LAMBDA next :
    IF ~is_some(next) \/ ~Operator_is_precedent_than(unwrap(next), op)
    THEN Ok(p, expr)
    ELSE
      With(unwrap(next), LAMBDA next_op :
      With(Parser_look_ahead(p), LAMBDA token_type :
      With(Parser_next_token(p), LAMBDA p1 :
      Try(CASE next_op = "Ternary" ->
                 Try(Call_Parser_expression(p1), LAMBDA truthy :
                 Try(eat(truthy.p, ":"), LAMBDA colon :
                 Try(Call_Parser_expr_precedence(colon.p, next_op), LAMBDA falsy :
                 Ok(falsy.p, Expr_ternary(expr, truthy.val, falsy.val)))))
            [] next_op = "Assign" ->
                 IF expr.k = "Var"
                 THEN Try(Call_Parser_expr_precedence(p1, next_op), LAMBDA value :
                      Ok(value.p, Expr_assign(expr.var, value.val)))
                 ELSE IF expr.k = "Get"
                 THEN Try(Call_Parser_expr_precedence(p1, next_op), LAMBDA value :
                      Ok(value.p, Expr_set(expr, value.val)))
                 ELSE Err(p1, InvalidLeftValue(Expr_get_span(expr)))
            [] next_op = "FnCall" -> Call_Parser_fn_call(p1, expr)
            [] next_op = "Dot" ->
                 Try(Parser_get_identifier(p1), LAMBDA field :
                 Ok(field.p, Expr_get(expr, field.val)))
            [] OTHER ->
                 Try(Call_Parser_expr_precedence(p1, next_op), LAMBDA right :
                 Ok(right.p, Expr_binary(BinaryOp_from(token_type), expr, right.val))),
          LAMBDA r :
      Call_Parser_expr_loop(r.p, op, r.val))))))

Parser_expr_precedence(p, op) ==
    Try(Call_Parser_expr_prefix(p), LAMBDA prefix : Call_Parser_expr_loop(prefix.p, op, prefix.val))


\* Parser::synchronize: discard tokens up to a semicolon (consumed) or a
\* statement-starting keyword or the end of input (left in place).
RECURSIVE Parser_synchronize(_)
Parser_synchronize(p) ==
    With(Parser_look_ahead(p), LAMBDA t :
    CASE t = "EOF" -> p
      [] t = ";" -> Parser_next_token(p)
      [] t \in {"class", "for", "fun", "if", "print", "return", "var", "while"} -> p
      [] OTHER -> Parser_synchronize(Parser_next_token(p)))

MaxParameters == 255


Parser_var_decl(p) ==
    With(Parser_next_token(p), LAMBDA p1 :
    With(Parser_look_ahead(p1), LAMBDA name :
    With(Parser_token_span(p1), LAMBDA name_span :
    With(Parser_next_token(p1), LAMBDA p2 :
    IF ~IsIdentifier(name) THEN Err(p2, ExpectStructure("identifier", name, name_span))
    ELSE Try(IF Parser_look_ahead(p2) = "="
             THEN Try(Parser_expression(Parser_next_token(p2)), LAMBDA e : Ok(e.p, Some(e.val)))
             ELSE Ok(p2, None), LAMBDA init :
         Try(eat(init.p, ";"), LAMBDA semi :
         Ok(semi.p, [k |-> "Var",
                     var |-> Variable_from_name(name, name_span),
                     initializer |-> init.val])))))))

\* The parameter loop of function (lines 160-168), with its passes counted
\* instead of unrolled.  Pass k calls get_identifier two tokens further on than
\* pass k - 1, and it is the last one when get_identifier fails or the token
\* after the identifier is not a comma.
Parser_parameter_pass(p, k) == Parser_get_identifier([p EXCEPT !.pos = p.pos + 2 * (k - 1)])

Parser_last_parameter_pass(p) ==
    CHOOSE k \in 1..(Len(src) + 1) :
        /\ \/ Parser_parameter_pass(p, k).st # "ok"
           \/ Parser_look_ahead(Parser_parameter_pass(p, k).p) # ","
        /\ \A j \in 1..(k - 1) :
              /\ Parser_parameter_pass(p, j).st = "ok"
              /\ Parser_look_ahead(Parser_parameter_pass(p, j).p) = ","

Parser_function_parameters(p, parameters) ==
    With(Parser_last_parameter_pass(p), LAMBDA last :
    Try(Parser_parameter_pass(p, last), LAMBDA id :
    Ok(id.p, parameters \o [k \in 1..last |->
                                Variable_from_ident(Parser_parameter_pass(p, k).val)])))

\* A function that gives up at the parameter list when it is too long.
Parser_function_aborting(p) ==
    Try(Parser_get_identifier(p), LAMBDA ident :
    Try(eat(ident.p, "("), LAMBDA open :
    Try(IF Parser_look_ahead(open.p) # ")"
             THEN Parser_function_parameters(open.p, <<>>)
             ELSE Ok(open.p, <<>>), LAMBDA params :
    Try(eat(params.p, ")"), LAMBDA close :
    Try(IF Len(params.val) > MaxParameters
        THEN Err(close.p, TooManyParameters(Span_extends_with(open.val, close.val)))
        ELSE Ok(close.p, None), LAMBDA checked :
    With(checked.p, LAMBDA p1 :
    Try(Call_Parser_block(p1), LAMBDA body :
    Ok(body.p, [k |-> "FnDecl",
                var |-> Variable_from_ident(ident.val),
                params |-> params.val,
                body |-> body.val,
                num_of_locals |-> 0]))))))))

Parser_function(p) ==
    Try(Parser_get_identifier(p), LAMBDA ident :
    Try(eat(ident.p, "("), LAMBDA open :
    Try(IF Parser_look_ahead(open.p) # ")"
             THEN Parser_function_parameters(open.p, <<>>)
             ELSE Ok(open.p, <<>>), LAMBDA params :
    Try(eat(params.p, ")"), LAMBDA close :
    With(IF Len(params.val) > MaxParameters
         THEN [close.p EXCEPT !.errors =
                  Append(@, TooManyParameters(Span_extends_with(open.val, close.val)))]
         ELSE close.p, LAMBDA p1 :
    Try(Call_Parser_block(p1), LAMBDA body :
    Ok(body.p, [k |-> "FnDecl",
                var |-> Variable_from_ident(ident.val),
                params |-> params.val,
                body |-> body.val,
                num_of_locals |-> 0])))))))

\* The method loop of class (lines 198-200).
Parser_class_methods(p, methods) ==
    IF Parser_look_ahead(p) = "}" THEN Ok(p, methods)
    ELSE Try(Call_Parser_function(p), LAMBDA m :
         Call_Parser_class_methods(m.p, Append(methods, m.val)))

Parser_class(p) ==
    Try(Parser_get_identifier(Parser_next_token(p)), LAMBDA ident :
    Try(IF Parser_look_ahead(ident.p) = "<"
        THEN Try(Parser_get_identifier(Parser_next_token(ident.p)), LAMBDA s :
             Ok(s.p, Some(Variable_from_ident(s.val))))
        ELSE Ok(ident.p, None), LAMBDA super_class :
    Try(eat(super_class.p, "{"), LAMBDA open :
    Try(Call_Parser_class_methods(open.p, <<>>), LAMBDA methods :
    Try(eat(methods.p, "}"), LAMBDA close :
    Ok(close.p, [k |-> "ClassDecl",
                 var |-> Variable_from_ident(ident.val),
                 super_class |-> super_class.val,
                 methods |-> methods.val]))))))

Parser_declaration(p) ==
    CASE Parser_look_ahead(p) = "var" -> Parser_var_decl(p)
      [] Parser_look_ahead(p) = "fun" -> Call_Parser_function(Parser_next_token(p))
      [] Parser_look_ahead(p) = "class" -> Call_Parser_class(p)
      [] OTHER -> Call_Parser_statement(p)

Parser_print_statement(p) ==
    Try(Parser_expression(Parser_next_token(p)), LAMBDA e :
    Try(eat(e.p, ";"), LAMBDA semi : Ok(semi.p, [k |-> "Print", expr |-> e.val])))

Parser_expression_statement(p) ==
    Try(Parser_expression(p), LAMBDA e :
    Try(eat(e.p, ";"), LAMBDA semi : Ok(semi.p, [k |-> "Expression", expr |-> e.val])))

Parser_return_statement(p) ==
    With(Parser_token_span(p), LAMBDA span :
    With(Parser_next_token(p), LAMBDA p1 :
    Try(IF Parser_look_ahead(p1) # ";"
        THEN Try(Parser_expression(p1), LAMBDA e : Ok(e.p, Some(e.val)))
        ELSE Ok(p1, None), LAMBDA expr :
    Try(eat(expr.p, ";"), LAMBDA semi :
    Ok(semi.p, [k |-> "Return", span |-> span, expr |-> expr.val])))))

Parser_if_statement(p) ==
    Try(eat(Parser_next_token(p), "("), LAMBDA open :
    Try(Call_Parser_expression(open.p), LAMBDA condition :
    Try(eat(condition.p, ")"), LAMBDA close :
    Try(Call_Parser_statement(close.p), LAMBDA then_branch :
    \* match_keyword! only looks ahead: the `else` is still the
    \* next token when statement() is called.
    Try(IF Parser_look_ahead(then_branch.p) = "else"
        THEN Try(Call_Parser_statement(then_branch.p), LAMBDA s : Ok(s.p, Some(s.val)))
        ELSE Ok(then_branch.p, None), LAMBDA else_branch :
    Ok(else_branch.p, [k |-> "If",
                       condition |-> condition.val,
                       then_branch |-> then_branch.val,
                       else_branch |-> else_branch.val]))))))

Parser_while_statement(p) ==
    Try(eat(Parser_next_token(p), "("), LAMBDA open :
    Try(Call_Parser_expression(open.p), LAMBDA condition :
    Try(eat(condition.p, ")"), LAMBDA close :
    Try(Call_Parser_statement(close.p), LAMBDA body :
    Ok(body.p, [k |-> "While", condition |-> condition.val, body |-> body.val])))))

Parser_for_statement(p) ==
    Try(eat(Parser_next_token(p), "("), LAMBDA open :
    Try(CASE Parser_look_ahead(open.p) = ";" -> Ok(Parser_next_token(open.p), None)
          [] Parser_look_ahead(open.p) = "var" ->
                Try(Parser_var_decl(open.p), LAMBDA v : Ok(v.p, Some(v.val)))
          [] OTHER ->
                Try(Parser_expression_statement(open.p), LAMBDA e : Ok(e.p, Some(e.val))),
        LAMBDA initializer :
    Try(IF Parser_look_ahead(initializer.p) = ";" THEN Ok(initializer.p, None)
        ELSE Try(Call_Parser_expression(initializer.p), LAMBDA e : Ok(e.p, Some(e.val))),
        LAMBDA condition :
    Try(IF Parser_look_ahead(condition.p) = ")" THEN Ok(condition.p, None)
        ELSE Try(Call_Parser_expression(condition.p), LAMBDA e : Ok(e.p, Some(e.val))),
        LAMBDA increment :
    Try(eat(increment.p, ")"), LAMBDA close :
    Try(Call_Parser_statement(close.p), LAMBDA body :
    With([k |-> "While",
          condition |-> IF is_some(condition.val) THEN unwrap(condition.val)
                        ELSE Expr_literal(LitBool(TRUE), Span_dummy),
          body |-> IF is_some(increment.val)
                   THEN Block_new(<<body.val,
                                    [k |-> "Expression", expr |-> unwrap(increment.val)]>>)
                   ELSE body.val], LAMBDA inner :
    Ok(body.p, IF is_some(initializer.val)
               THEN Block_new(<<unwrap(initializer.val), inner>>)
               ELSE inner))))))))

Parser_statement(p) ==
    CASE Parser_look_ahead(p) = "print" -> Parser_print_statement(p)
      [] Parser_look_ahead(p) = "{" ->
            Try(Call_Parser_block(p), LAMBDA b : Ok(b.p, Block_new(b.val)))
      [] Parser_look_ahead(p) = "if" -> Call_Parser_if_statement(p)
      [] Parser_look_ahead(p) = "while" -> Call_Parser_while_statement(p)
      [] Parser_look_ahead(p) = "for" -> Call_Parser_for_statement(p)
      [] Parser_look_ahead(p) = "return" -> Parser_return_statement(p)
      [] OTHER -> Parser_expression_statement(p)

\* One pass of the `while` loop of block (lines 328-336) from a parser whose
\* next token is not `}`: the parser after the pass, and the statement pushed.
\* declaration never touches `statements`, and nothing in the pass reads
\* self.errors.
Parser_block_pass(p) ==
    With(Call_Parser_declaration(p), LAMBDA d :
    CASE d.st = "ok" -> [st |-> "ok", p |-> d.p, pushed |-> <<d.val>>]
      [] d.st = "err" ->
            [st |-> "ok",
             p |-> Parser_synchronize([d.p EXCEPT !.errors = Append(@, d.val)]),
             pushed |-> <<>>]
      [] OTHER -> [st |-> "spin", p |-> d.p, pushed |-> <<>>])

\* The `while` loop of block.  A pass that ends at the cursor it started from
\* with the loop condition still true is followed by the same pass again, for
\* ever: the loop reads nothing but the cursor.  Such a call never returns and
\* is reported as "spin", at the parser it spins from.
Parser_block_loop(p, stmts) ==
    IF Parser_look_ahead(p) = "}" THEN Ok(p, stmts)
    ELSE With(Call_Parser_block_pass(p), LAMBDA pass :
         IF pass.st = "spin" THEN Spin(pass.p)
         ELSE IF pass.p.pos = p.pos THEN Spin(p)
         ELSE Call_Parser_block_loop(pass.p, stmts \o pass.pushed))

Parser_block(p) ==
    Try(Call_Parser_block_loop(Parser_next_token(p), <<>>), LAMBDA loop :
    Try(eat(loop.p, "}"), LAMBDA close : Ok(close.p, loop.val)))


Parser_call(f, a) ==
    CASE f = "Parser_expression" -> Parser_expression(a[1])
      [] f = "Parser_fn_call_arguments" -> Parser_fn_call_arguments(a[1], a[2])
      [] f = "Parser_fn_call" -> Parser_fn_call(a[1], a[2])
      [] f = "Parser_expr_prefix" -> Parser_expr_prefix(a[1])
      [] f = "Parser_expr_loop" -> Parser_expr_loop(a[1], a[2], a[3])
      [] f = "Parser_expr_precedence" -> Parser_expr_precedence(a[1], a[2])
      [] f = "Parser_function" -> Parser_function(a[1])
      [] f = "Parser_class_methods" -> Parser_class_methods(a[1], a[2])
      [] f = "Parser_class" -> Parser_class(a[1])
      [] f = "Parser_declaration" -> Parser_declaration(a[1])
      [] f = "Parser_if_statement" -> Parser_if_statement(a[1])
      [] f = "Parser_while_statement" -> Parser_while_statement(a[1])
      [] f = "Parser_for_statement" -> Parser_for_statement(a[1])
      [] f = "Parser_statement" -> Parser_statement(a[1])
      [] f = "Parser_block_pass" -> Parser_block_pass(a[1])
      [] f = "Parser_block_loop" -> Parser_block_loop(a[1], a[2])
      [] f = "Parser_block" -> Parser_block(a[1])

(***************************************************************************)
(* Resolver (lox_resolver/src/resolver.rs)                                 *)
(*                                                                         *)
(* The Resolver struct is [scopes, errors, class_type, function_type].  A  *)
(* method that mutates an AST node in place takes the struct and the node  *)
(* and returns [r, n]: the struct and the node afterwards.                 *)
(***************************************************************************)
EmptyMap == [x \in {} |-> None]

Scope_default == [variables |-> EmptyMap]

Resolver_default ==
    [scopes |-> <<>>, errors |-> <<>>, class_type |-> "None", function_type |-> "None"]

RedefineVar(pos, name, defined_at) ==
    [e |-> "RedefineVar", pos |-> pos, name |-> name, defined_at |-> defined_at]

\* Scope::declare: [scope, res], res being Ok(index) or Err(defined_at).
Scope_declare(scope, name, span, initialized) ==
    IF name \in DOMAIN scope.variables
    THEN [scope |-> scope, ok |-> FALSE, val |-> scope.variables[name].defined_at]
    ELSE With(Cardinality(DOMAIN scope.variables), LAMBDA index :
         [scope |-> [variables |->
                        (name :> [index |-> index,
                                  defined_at |-> span,
                                  status |-> IF initialized THEN "Initialized"
                                             ELSE "Declared"])
                        @@ scope.variables],
          ok |-> TRUE,
          val |-> index])

\* Scope::access: [scope, res], res being the Option<IdentIndex>.
Scope_access(scope, name, status) ==
    IF name \in DOMAIN scope.variables
    THEN [scope |-> [variables |-> [scope.variables EXCEPT ![name].status = status]],
          val |-> Some(scope.variables[name].index)]
    ELSE [scope |-> scope, val |-> None]

Resolver_declare(r, var, initialized) ==
    IF r.scopes = <<>> THEN [r |-> r, n |-> var]
    ELSE With(Len(r.scopes), LAMBDA last :
         With(Scope_declare(r.scopes[last], var.ident.name, var.ident.span, initialized), LAMBDA d :
         IF d.ok
         THEN [r |-> [r EXCEPT !.scopes[last] = d.scope],
               n |-> [var EXCEPT !.target = Some(IdentTarget(0, d.val))]]
         ELSE [r |-> [r EXCEPT !.errors =
                         Append(@, RedefineVar(var.ident.span, var.ident.name, d.val))],
               n |-> var]))

\* An access that counts the scopes on from the target the variable has.
RECURSIVE Resolver_access_onward(_, _, _, _)
Resolver_access_onward(r, var, status, scope_count) ==
    IF scope_count >= Len(r.scopes) THEN [r |-> r, n |-> var]
    ELSE With(Len(r.scopes) - scope_count, LAMBDA i :
         With(Scope_access(r.scopes[i], var.ident.name, status), LAMBDA a :
         IF is_some(a.val)
         THEN [r |-> [r EXCEPT !.scopes[i] = a.scope],
               n |-> [var EXCEPT !.target =
                         Some(IdentTarget(scope_count + (IF is_some(var.target)
                                                         THEN unwrap(var.target).scope_count
                                                         ELSE 0),
                                          unwrap(a.val)))]]
         ELSE Resolver_access_onward(r, var, status, scope_count + 1)))

\* The loop of access (lines 119-127), at the scope scope_count levels out.
RECURSIVE Resolver_access_from(_, _, _, _)
Resolver_access_from(r, var, status, scope_count) ==
    IF scope_count >= Len(r.scopes) THEN [r |-> r, n |-> var]
    ELSE With(Len(r.scopes) - scope_count, LAMBDA i :
         With(Scope_access(r.scopes[i], var.ident.name, status), LAMBDA a :
         IF is_some(a.val)
         THEN [r |-> [r EXCEPT !.scopes[i] = a.scope],
               n |-> [var EXCEPT !.target = Some(IdentTarget(scope_count, unwrap(a.val)))]]
         ELSE Resolver_access_from(r, var, status, scope_count + 1)))

Resolver_access(r, var, status) == Resolver_access_from(r, var, status, 0)
Resolver_assign(r, var) == Resolver_access(r, var, "Initialized")
Resolver_get(r, var) == Resolver_access(r, var, "Used")

Resolver_start_scope(r) == [r EXCEPT !.scopes = Append(@, Scope_default)]

\* A start_class_scope that puts an empty scope on top of the scope of super.
Resolver_start_class_scope_apart(r, span, is_super_class) ==
    [r EXCEPT !.scopes =
        IF is_super_class
        THEN Append(Append(@, Scope_declare(Scope_default, "super", span, TRUE).scope),
                    Scope_default)
        ELSE Append(@, Scope_declare(Scope_default, "this", span, TRUE).scope)]

Resolver_start_class_scope(r, span, is_super_class) ==
    [r EXCEPT !.scopes =
        Append(@, Scope_declare(Scope_default,
                                IF is_super_class THEN "super" ELSE "this",
                                span, TRUE).scope)]

\* An end_scope that reports the number of scopes left.
Resolver_end_scope_depth(r) ==
    [r |-> [r EXCEPT !.scopes = SubSeq(@, 1, Len(@) - 1)], n |-> Len(r.scopes) - 1]

\* end_scope: [r, n], n being the number of variables of the popped scope.
Resolver_end_scope(r) ==
    [r |-> [r EXCEPT !.scopes = SubSeq(@, 1, Len(@) - 1)],
     n |-> Cardinality(DOMAIN r.scopes[Len(r.scopes)].variables)]

Resolver_visit_var(r, var) ==
    Resolver_get(IF var.ident.name = "this" /\ r.function_type = "None"
                 THEN [r EXCEPT !.errors = Append(@, [e |-> "InvalidThis",
                                                       span |-> var.ident.span])]
                 ELSE r,
                 var)

\* The walk re-enters itself through one operator: a call of a visiting
\* function that is defined further down is written Call_<function> and
\* reaches the function through Resolver_call, which selects it by name.
RECURSIVE Resolver_call(_, _)
Call_Resolver_walk_exprs(r, exprs, done) == Resolver_call("Resolver_walk_exprs", <<r, exprs, done>>)
Call_Resolver_walk_stmts(r, stmts, done) == Resolver_call("Resolver_walk_stmts", <<r, stmts, done>>)
Call_Resolver_visit_fn_call(r, e) == Resolver_call("Resolver_visit_fn_call", <<r, e>>)
Call_VisitorMut_walk_assign(r, e) == Resolver_call("VisitorMut_walk_assign", <<r, e>>)
Call_VisitorMut_walk_get(r, e) == Resolver_call("VisitorMut_walk_get", <<r, e>>)
Call_VisitorMut_walk_set(r, e) == Resolver_call("VisitorMut_walk_set", <<r, e>>)
Call_Resolver_walk_expr(r, e) == Resolver_call("Resolver_walk_expr", <<r, e>>)
Call_Resolver_resolve_function(r, function) == Resolver_call("Resolver_resolve_function", <<r, function>>)
Call_Resolver_visit_function(r, function) == Resolver_call("Resolver_visit_function", <<r, function>>)
Call_Resolver_resolve_methods(r, methods, done) == Resolver_call("Resolver_resolve_methods", <<r, methods, done>>)
Call_Resolver_visit_class(r, class) == Resolver_call("Resolver_visit_class", <<r, class>>)
Call_Resolver_visit_return(r, return_stmt) == Resolver_call("Resolver_visit_return", <<r, return_stmt>>)
Call_Resolver_visit_var_decl(r, var_decl) == Resolver_call("Resolver_visit_var_decl", <<r, var_decl>>)
Call_Resolver_visit_block(r, block) == Resolver_call("Resolver_visit_block", <<r, block>>)
Call_Resolver_visit_if(r, if_stmt) == Resolver_call("Resolver_visit_if", <<r, if_stmt>>)
Call_Resolver_visit_while(r, while_stmt) == Resolver_call("Resolver_visit_while", <<r, while_stmt>>)
Call_Resolver_walk_stmt(r, stmt) == Resolver_call("Resolver_walk_stmt", <<r, stmt>>)

\* A for loop over expressions (visit_fn_call's arguments): [r, n], n the
\* expressions afterwards; done holds those already visited.
Resolver_walk_exprs(r, exprs, done) ==
    IF Len(done) = Len(exprs) THEN [r |-> r, n |-> done]
    ELSE With(Call_Resolver_walk_expr(r, exprs[Len(done) + 1]), LAMBDA x :
         Call_Resolver_walk_exprs(x.r, exprs, Append(done, x.n)))

\* A for loop over statements.
Resolver_walk_stmts(r, stmts, done) ==
    IF Len(done) = Len(stmts) THEN [r |-> r, n |-> done]
    ELSE With(Call_Resolver_walk_stmt(r, stmts[Len(done) + 1]), LAMBDA x :
         Call_Resolver_walk_stmts(x.r, stmts, Append(done, x.n)))

Resolver_visit_super(r, e) ==
    CASE r.class_type = "SubClass" ->
            With(Resolver_get(r, e.var), LAMBDA g : [r |-> g.r, n |-> [e EXCEPT !.var = g.n]])
      [] r.class_type = "Class" ->
            [r |-> [r EXCEPT !.errors = Append(@, [e |-> "NotSubClass",
                                                    span |-> e.var.ident.span])],
             n |-> e]
      [] OTHER ->
            [r |-> [r EXCEPT !.errors = Append(@, [e |-> "InvalidSuper",
                                                    span |-> e.var.ident.span])],
             n |-> e]

Resolver_visit_fn_call(r, e) ==
    With(Call_Resolver_walk_expr(r, e.callee), LAMBDA c :
    With(Call_Resolver_walk_exprs(c.r, e.arguments, <<>>), LAMBDA a :
    [r |-> a.r, n |-> [e EXCEPT !.callee = c.n, !.arguments = a.n]]))

\* VisitorMut's default for Assign, which the resolver does not override.
VisitorMut_walk_assign(r, e) ==
    With(Resolver_visit_var(r, e.var), LAMBDA v :
    With(Call_Resolver_walk_expr(v.r, e.value), LAMBDA x :
    [r |-> x.r, n |-> [e EXCEPT !.var = v.n, !.value = x.n]]))

\* VisitorMut's default for Get.
VisitorMut_walk_get(r, e) ==
    With(Call_Resolver_walk_expr(r, e.object), LAMBDA o :
    [r |-> o.r, n |-> [e EXCEPT !.object = o.n]])

\* VisitorMut's default for Set.
VisitorMut_walk_set(r, e) ==
    With(Call_Resolver_walk_expr(r, e.target.object), LAMBDA o :
    With(Call_Resolver_walk_expr(o.r, e.value), LAMBDA x :
    [r |-> x.r, n |-> [e EXCEPT !.target.object = o.n, !.value = x.n]]))

\* walk_expr: the visitor method of the expression's variant, the default
\* walk_* where the resolver has none of its own.
Resolver_walk_expr(r, e) ==
    CASE e.k = "Binary" ->
            With(Call_Resolver_walk_expr(r, e.left), LAMBDA l :
            With(Call_Resolver_walk_expr(l.r, e.right), LAMBDA x :
            [r |-> x.r, n |-> [e EXCEPT !.left = l.n, !.right = x.n]]))
      [] e.k = "Unary" ->
            With(Call_Resolver_walk_expr(r, e.operand), LAMBDA x :
            [r |-> x.r, n |-> [e EXCEPT !.operand = x.n]])
      [] e.k = "Group" ->
            With(Call_Resolver_walk_expr(r, e.expr), LAMBDA x :
            [r |-> x.r, n |-> [e EXCEPT !.expr = x.n]])
      [] e.k = "Literal" -> [r |-> r, n |-> e]
      [] e.k = "Ternary" ->
            With(Call_Resolver_walk_expr(r, e.condition), LAMBDA c :
            With(Call_Resolver_walk_expr(c.r, e.truthy), LAMBDA t :
            With(Call_Resolver_walk_expr(t.r, e.falsy), LAMBDA f :
            [r |-> f.r, n |-> [e EXCEPT !.condition = c.n, !.truthy = t.n, !.falsy = f.n]])))
      [] e.k = "Assign" -> Call_VisitorMut_walk_assign(r, e)
      [] e.k = "Var" ->
            With(Resolver_visit_var(r, e.var), LAMBDA v : [r |-> v.r, n |-> [e EXCEPT !.var = v.n]])
      [] e.k = "FnCall" -> Call_Resolver_visit_fn_call(r, e)
      [] e.k = "Get" -> Call_VisitorMut_walk_get(r, e)
      [] e.k = "Set" -> Call_VisitorMut_walk_set(r, e)
      [] e.k = "Super" -> Resolver_visit_super(r, e)

\* The parameter loop of resolve_function (lines 154-156): declare for each
\* parameter in turn, [r, n] with n the parameters afterwards.  Written without
\* recursion, a function may have 255 parameters: parameter k is declared when
\* its name is new to the innermost scope and to the parameters before it, at
\* the index that the names declared before it leave free; every other
\* parameter is reported, in order, with the place of the first declaration.
Resolver_declare_params(r, params) ==
    With(Len(r.scopes), LAMBDA last :
    With(r.scopes[last].variables, LAMBDA before :
    With([k \in DOMAIN params |->
             {j \in 1..(k - 1) : params[j].ident.name = params[k].ident.name}], LAMBDA earlier :
    With([k \in DOMAIN params |->
             params[k].ident.name \notin DOMAIN before /\ earlier[k] = {}], LAMBDA new :
    With([k \in DOMAIN params |->
             Cardinality(DOMAIN before \cup {params[j].ident.name : j \in 1..(k - 1)})], LAMBDA index :
    With({k \in DOMAIN params : ~new[k]}, LAMBDA redefined :
    With([k \in DOMAIN params |->
             IF params[k].ident.name \in DOMAIN before
             THEN before[params[k].ident.name].defined_at
             ELSE params[CHOOSE j \in 1..k : new[j] /\ params[j].ident.name = params[k].ident.name]
                      .ident.span], LAMBDA defined_at :
    [r |-> [r EXCEPT
              !.scopes[last] =
                  [variables |->
                      [name \in DOMAIN before \cup {params[k].ident.name : k \in DOMAIN params} |->
                          IF name \in DOMAIN before THEN before[name]
                          ELSE With(CHOOSE k \in DOMAIN params :
                                        new[k] /\ params[k].ident.name = name, LAMBDA k :
                               [index |-> index[k],
                                defined_at |-> params[k].ident.span,
                                status |-> "Initialized"])]],
              !.errors =
                  @ \o [m \in 1..Cardinality(redefined) |->
                           With(CHOOSE k \in redefined :
                                    Cardinality({j \in redefined : j < k}) = m - 1, LAMBDA k :
                           RedefineVar(params[k].ident.span, params[k].ident.name,
                                       defined_at[k]))]],
     n |-> [k \in DOMAIN params |->
              IF new[k] THEN [params[k] EXCEPT !.target = Some(IdentTarget(0, index[k]))]
              ELSE params[k]]])))))))

Resolver_resolve_function(r, function) ==
    With(Resolver_declare_params(Resolver_start_scope(r), function.params), LAMBDA ps :
    With(Call_Resolver_walk_stmts(ps.r, function.body, <<>>), LAMBDA body :
    With(Resolver_end_scope(body.r), LAMBDA end :
    [r |-> end.r,
     n |-> [function EXCEPT !.params = ps.n, !.body = body.n, !.num_of_locals = end.n]])))

\* A visit_function that leaves function_type as it finds it.
Resolver_visit_function_keeping(r, function) ==
    With(Resolver_declare(r, function.var, TRUE), LAMBDA d :
    Call_Resolver_resolve_function(d.r, [function EXCEPT !.var = d.n]))

Resolver_visit_function(r, function) ==
    With(Resolver_declare(r, function.var, TRUE), LAMBDA d :
    With(d.r.function_type, LAMBDA previous :
    With(Call_Resolver_resolve_function([d.r EXCEPT !.function_type = "Function"],
                                   [function EXCEPT !.var = d.n]), LAMBDA f :
    [r |-> [f.r EXCEPT !.function_type = previous], n |-> f.n])))

\* The method loop of visit_class (lines 213-224).
Resolver_resolve_methods(r, methods, done) ==
    IF Len(done) = Len(methods) THEN [r |-> r, n |-> done]
    ELSE With(methods[Len(done) + 1], LAMBDA method :
         With(r.function_type, LAMBDA previous_fn_type :
         With(Call_Resolver_resolve_function(
                  [r EXCEPT !.function_type =
                      IF method.var.ident.name = "init" THEN "Initializer" ELSE "Method"],
                  method), LAMBDA f :
         Call_Resolver_resolve_methods([f.r EXCEPT !.function_type = previous_fn_type],
                                  methods, Append(done, f.n)))))

Resolver_visit_class(r, class) ==
    With(Resolver_declare(r, class.var, TRUE), LAMBDA d :
    With(d.r.class_type, LAMBDA previous_class_type :
    With([d.r EXCEPT !.class_type = "Class"], LAMBDA r1 :
    With(IF is_some(class.super_class)
         THEN With(Resolver_get(
                       Resolver_start_class_scope(
                           r1, unwrap(class.super_class).ident.span, TRUE),
                       unwrap(class.super_class)), LAMBDA g :
              [r |-> [g.r EXCEPT !.class_type = "SubClass"], n |-> Some(g.n)])
         ELSE [r |-> r1, n |-> None], LAMBDA s :
    With(Call_Resolver_resolve_methods(
             Resolver_start_class_scope(s.r, class.var.ident.span, FALSE),
             class.methods, <<>>), LAMBDA m :
    With(Resolver_end_scope(m.r).r, LAMBDA r2 :
    With(IF is_some(class.super_class) THEN Resolver_end_scope(r2).r ELSE r2, LAMBDA r3 :
    [r |-> [r3 EXCEPT !.class_type = previous_class_type],
     n |-> [class EXCEPT !.var = d.n, !.super_class = s.n, !.methods = m.n]])))))))

Resolver_visit_return(r, return_stmt) ==
    IF r.function_type = "None"
    THEN [r |-> [r EXCEPT !.errors = Append(@, [e |-> "InvalidReturn",
                                                 span |-> return_stmt.span])],
          n |-> return_stmt]
    ELSE IF is_some(return_stmt.expr)
    THEN With(IF r.function_type = "Initializer"
              THEN [r EXCEPT !.errors = Append(@, [e |-> "ReturnInConstructor",
                                                    span |-> return_stmt.span])]
              ELSE r, LAMBDA r1 :
         With(Call_Resolver_walk_expr(r1, unwrap(return_stmt.expr)), LAMBDA x :
         [r |-> x.r, n |-> [return_stmt EXCEPT !.expr = Some(x.n)]]))
    ELSE [r |-> r, n |-> return_stmt]

Resolver_visit_var_decl(r, var_decl) ==
    With(Resolver_declare(r, var_decl.var, FALSE), LAMBDA d :
    IF is_some(var_decl.initializer)
    THEN With(Call_Resolver_walk_expr(d.r, unwrap(var_decl.initializer)), LAMBDA x :
         With(Resolver_assign(x.r, d.n), LAMBDA a :
         [r |-> a.r, n |-> [var_decl EXCEPT !.var = a.n, !.initializer = Some(x.n)]]))
    ELSE [r |-> d.r, n |-> [var_decl EXCEPT !.var = d.n]])

Resolver_visit_block(r, block) ==
    With(Call_Resolver_walk_stmts(Resolver_start_scope(r), block.statements, <<>>), LAMBDA b :
    With(Resolver_end_scope(b.r), LAMBDA end :
    [r |-> end.r, n |-> [block EXCEPT !.statements = b.n, !.num_of_locals = end.n]]))

Resolver_visit_if(r, if_stmt) ==
    With(Call_Resolver_walk_expr(r, if_stmt.condition), LAMBDA c :
    With(Call_Resolver_walk_stmt(c.r, if_stmt.then_branch), LAMBDA t :
    With(IF is_some(if_stmt.else_branch)
         THEN With(Call_Resolver_walk_stmt(t.r, unwrap(if_stmt.else_branch)), LAMBDA x :
              [r |-> x.r, n |-> Some(x.n)])
         ELSE [r |-> t.r, n |-> None], LAMBDA e :
    [r |-> e.r,
     n |-> [if_stmt EXCEPT !.condition = c.n, !.then_branch = t.n, !.else_branch = e.n]])))

Resolver_visit_while(r, while_stmt) ==
    With(Call_Resolver_walk_expr(r, while_stmt.condition), LAMBDA c :
    With(Call_Resolver_walk_stmt(c.r, while_stmt.body), LAMBDA b :
    [r |-> b.r, n |-> [while_stmt EXCEPT !.condition = c.n, !.body = b.n]]))

\* walk_stmt: the visitor method of the statement's variant.
Resolver_walk_stmt(r, stmt) ==
    CASE stmt.k \in {"Print", "Expression"} ->
            With(Call_Resolver_walk_expr(r, stmt.expr), LAMBDA x :
            [r |-> x.r, n |-> [stmt EXCEPT !.expr = x.n]])
      [] stmt.k = "Var" -> Call_Resolver_visit_var_decl(r, stmt)
      [] stmt.k = "Block" -> Call_Resolver_visit_block(r, stmt)
      [] stmt.k = "If" -> Call_Resolver_visit_if(r, stmt)
      [] stmt.k = "While" -> Call_Resolver_visit_while(r, stmt)
      [] stmt.k = "FnDecl" -> Call_Resolver_visit_function(r, stmt)
      [] stmt.k = "Return" -> Call_Resolver_visit_return(r, stmt)
      [] stmt.k = "ClassDecl" -> Call_Resolver_visit_class(r, stmt)

\* Resolver::resolve on a fresh resolver: [errors, ast], errors being the
\* content of the returned Option (empty for None).
Resolver_resolve(tree) ==
    With(Resolver_walk_stmts(Resolver_default, tree, <<>>), LAMBDA x :
    [errors |-> x.r.errors, ast |-> x.n])


Resolver_call(f, a) ==
    CASE f = "Resolver_walk_exprs" -> Resolver_walk_exprs(a[1], a[2], a[3])
      [] f = "Resolver_walk_stmts" -> Resolver_walk_stmts(a[1], a[2], a[3])
      [] f = "Resolver_visit_fn_call" -> Resolver_visit_fn_call(a[1], a[2])
      [] f = "VisitorMut_walk_assign" -> VisitorMut_walk_assign(a[1], a[2])
      [] f = "VisitorMut_walk_get" -> VisitorMut_walk_get(a[1], a[2])
      [] f = "VisitorMut_walk_set" -> VisitorMut_walk_set(a[1], a[2])
      [] f = "Resolver_walk_expr" -> Resolver_walk_expr(a[1], a[2])
      [] f = "Resolver_resolve_function" -> Resolver_resolve_function(a[1], a[2])
      [] f = "Resolver_visit_function" -> Resolver_visit_function(a[1], a[2])
      [] f = "Resolver_resolve_methods" -> Resolver_resolve_methods(a[1], a[2], a[3])
      [] f = "Resolver_visit_class" -> Resolver_visit_class(a[1], a[2])
      [] f = "Resolver_visit_return" -> Resolver_visit_return(a[1], a[2])
      [] f = "Resolver_visit_var_decl" -> Resolver_visit_var_decl(a[1], a[2])
      [] f = "Resolver_visit_block" -> Resolver_visit_block(a[1], a[2])
      [] f = "Resolver_visit_if" -> Resolver_visit_if(a[1], a[2])
      [] f = "Resolver_visit_while" -> Resolver_visit_while(a[1], a[2])
      [] f = "Resolver_walk_stmt" -> Resolver_walk_stmt(a[1], a[2])

(***************************************************************************)
(* Values and environments (lox_interpreter/src/value.rs, environment.rs)  *)
(*                                                                         *)
(* A reference-counted object is its index in a heap kept with the         *)
(* interpreter: frames (Rc<RefCell<Environment>>), functions               *)
(* (Rc<Function>), classes (Rc<Class>), instances (Rc<RefCell<Instance>>). *)
(* An Option<Env> is 0 for None.  Numbers are the integers.                *)
(***************************************************************************)
Value_Number(n) == [t |-> "Number", v |-> n]
Value_String(s) == [t |-> "String", v |-> s]
Value_Bool(b) == [t |-> "Bool", v |-> b]
Value_Nil == [t |-> "Nil", v |-> 0]
Value_NativeFunction(name) == [t |-> "NativeFunction", v |-> name]
Value_Function(rc) == [t |-> "Function", v |-> rc]
Value_Class(rc) == [t |-> "Class", v |-> rc]
Value_Instance(rc) == [t |-> "Instance", v |-> rc]

\* impl From<Lit> for Value
Value_from_lit(lit) == [t |-> lit.t, v |-> lit.v]

Value_as_bool(self) ==
    CASE self.t = "Number" -> self.v # 0
      [] self.t = "String" -> self.v # ""
      [] self.t = "Bool" -> self.v
      [] self.t = "Nil" -> FALSE
      [] OTHER -> TRUE

Value_type_name(self) ==
    CASE self.t = "Number" -> "number"
      [] self.t = "String" -> "string"
      [] self.t = "Bool" -> "bool"
      [] self.t = "Nil" -> "nil"
      [] self.t = "NativeFunction" -> "native function"
      [] self.t = "Function" -> "function"
      [] self.t = "Class" -> "class"
      [] self.t = "Instance" -> "instance"

\* std::ptr::eq of two references: the addresses they point to are the same.
ptr_eq(a, b) == a = b

\* impl PartialEq for Value.  self and other are references to Values:
\* [at, value], at naming the place that holds the Value.  For Function, Class
\* and Instance f1 and f2 are references to the Rc fields of those two Values.
Value_eq(self, other) ==
    CASE self.value.t = "Number" /\ other.value.t = "Number" -> self.value.v = other.value.v
      [] self.value.t = "String" /\ other.value.t = "String" -> self.value.v = other.value.v
      [] self.value.t = "Bool" /\ other.value.t = "Bool" -> self.value.v = other.value.v
      [] self.value.t = "NativeFunction" /\ other.value.t = "NativeFunction" ->
            self.value.v = other.value.v
      [] self.value.t = "Function" /\ other.value.t = "Function" -> ptr_eq(self.at, other.at)
      [] self.value.t = "Class" /\ other.value.t = "Class" -> ptr_eq(self.at, other.at)
      [] self.value.t = "Instance" /\ other.value.t = "Instance" -> ptr_eq(self.at, other.at)
      [] self.value.t = "Nil" /\ other.value.t = "Nil" -> TRUE
      [] OTHER -> FALSE

\* vec![Value::Nil; len]
RECURSIVE NilValues(_)
NilValues(len) == IF len = 0 THEN <<>> ELSE Append(NilValues(len - 1), Value_Nil)

\* Environment::new
Environment_new(len, enclosing) == [values |-> NilValues(len), enclosing |-> enclosing]

\* Environment::assign on frame f of the heap: [ok, frames]; ok is FALSE when
\* the call panics (index out of bounds, unwrap of a missing enclosing frame).
RECURSIVE Environment_assign(_, _, _, _)
Environment_assign(frames, f, target, value) ==
    IF target.scope_count = 0
    THEN IF target.index + 1 \in DOMAIN frames[f].values
         THEN [ok |-> TRUE, frames |-> [frames EXCEPT ![f].values[target.index + 1] = value]]
         ELSE [ok |-> FALSE, frames |-> frames]
    ELSE IF frames[f].enclosing = 0 THEN [ok |-> FALSE, frames |-> frames]
    ELSE Environment_assign(frames, frames[f].enclosing,
                            IdentTarget(target.scope_count - 1, target.index), value)

\* Environment::get on frame f of the heap: [ok, val].
RECURSIVE Environment_get(_, _, _)
Environment_get(frames, f, target) ==
    IF target.scope_count = 0
    THEN IF target.index + 1 \in DOMAIN frames[f].values
         THEN [ok |-> TRUE, val |-> frames[f].values[target.index + 1]]
         ELSE [ok |-> FALSE, val |-> Value_Nil]
    ELSE IF frames[f].enclosing = 0 THEN [ok |-> FALSE, val |-> Value_Nil]
    ELSE Environment_get(frames, frames[f].enclosing,
                         IdentTarget(target.scope_count - 1, target.index))

\* The width of Callable::arity (u8).
U8 == 256

Function_arity(self) == Len(self.declaration.params) % U8

\* Class::get_method on class c of the heap: the Option<&Function>.
RECURSIVE Class_get_method(_, _, _)
Class_get_method(classes, c, name) ==
    IF name \in DOMAIN classes[c].methods THEN Some(classes[c].methods[name])
    ELSE IF classes[c].super_class # 0
    THEN Class_get_method(classes, classes[c].super_class, name)
    ELSE None

\* An arity that looks for `init` in the class's own methods only.
Class_arity_own(classes, c) ==
    IF "init" \in DOMAIN classes[c].methods
    THEN Function_arity(classes[c].methods["init"]) ELSE 0

Class_arity(classes, c) ==
    With(Class_get_method(classes, c, "init"), LAMBDA init :
    IF is_some(init) THEN Function_arity(unwrap(init)) ELSE 0)

\* The collect() of Class::new into the method map: a later method of the
\* same name replaces an earlier one.
RECURSIVE Class_collect_methods(_, _, _)
Class_collect_methods(methods, closure, n) ==
    IF n = 0 THEN EmptyMap
    ELSE (methods[n].var.ident.name :> [declaration |-> methods[n], closure |-> closure])
         @@ Class_collect_methods(methods, closure, n - 1)


(***************************************************************************)
(* The interpreter (lox_interpreter/src/interpreter.rs)                    *)
(*                                                                         *)
(* An operation takes the interpreter i and returns [st, i, val]:          *)
(*   st = "ok"    Ok(val)                                                  *)
(*   st = "err"   Err(val), val a RuntimeError                             *)
(*   st = "panic" the thread panicked (val says where)                     *)
(*   st = "fuel"  the evaluation was cut off by the bound MaxSteps         *)
(*   st = "unmodelled" a number outside the integers was needed            *)
(* i.out is what was written to stdout; i.log is a history of the calls    *)
(* the properties below speak about; i.now is the wall clock.              *)
(***************************************************************************)
MaxSteps == 12

ROk(i, val) == [st |-> "ok", i |-> i, val |-> val]
RErr(i, err) == [st |-> "err", i |-> i, val |-> err]
RAbort(st, i, what) == [st |-> st, i |-> i, val |-> what]

TypeError(span, expected, found) ==
    [e |-> "TypeError", span |-> span, expected |-> expected, found |-> found]
UndefinedVariable(name) == [e |-> "UndefinedVariable", name |-> name]
UndefinedField(field) == [e |-> "UndefinedField", field |-> field]
InvalidFieldTarget(target_type, field) ==
    [e |-> "InvalidFieldTarget", target_type |-> target_type, field |-> field]
NotCallable(target, span) == [e |-> "NotCallable", target |-> target, span |-> span]
ArgumentsNotMatch(expected, got, span) ==
    [e |-> "ArgumentsNotMatch", expected |-> expected, got |-> got, span |-> span]
Return(span, value) == [e |-> "Return", span |-> span, value |-> value]
ReturnInConstructor(span) == [e |-> "ReturnInConstructor", span |-> span]
InvalidSuperClass(span) == [e |-> "InvalidSuperClass", span |-> span]
RuntimeError_type_error(span, expected, found) ==
    TypeError(span, expected, Value_type_name(found))

Interpreter_new ==
    [env |-> 0,
     global_env |-> ("clock" :> Value_NativeFunction("clock")),
     frames |-> <<>>, functions |-> <<>>, classes |-> <<>>, instances |-> <<>>,
     out |-> <<>>, log |-> <<>>, fuel |-> MaxSteps, now |-> 0]

Logged(i, event) == [i EXCEPT !.log = Append(@, event)]

\* impl Display for Value
Value_to_string(i, self) ==
    CASE self.t = "Number" -> ToString(self.v)
      [] self.t = "String" -> self.v
      [] self.t = "Bool" -> IF self.v THEN "true" ELSE "false"
      [] self.t = "Nil" -> "nil"
      [] self.t = "NativeFunction" -> "<native function " \o self.v \o ">"
      [] self.t = "Function" ->
            "<function " \o i.functions[self.v].declaration.var.ident.name \o ">"
      [] self.t = "Class" -> "<class " \o i.classes[self.v].var.ident.name \o ">"
      [] self.t = "Instance" ->
            "<" \o i.classes[i.instances[self.v].class].var.ident.name \o " instance>"

Interpreter_assign_to(i, target, value) ==
    IF i.env = 0 THEN RAbort("panic", i, "assign_to: unwrap on None")
    ELSE With(Environment_assign(i.frames, i.env, target, value), LAMBDA a :
         IF a.ok THEN ROk([i EXCEPT !.frames = a.frames], Value_Nil)
         ELSE RAbort("panic", i, "Environment::assign"))

GlobalEnvironment_define(i, name, value) ==
    [i EXCEPT !.global_env = (name :> value) @@ @]

Interpreter_declare_var(i, var, value) ==
    IF is_some(var.target) THEN Interpreter_assign_to(i, unwrap(var.target), value)
    ELSE ROk(GlobalEnvironment_define(i, var.ident.name, value), Value_Nil)

GlobalEnvironment_assign(i, name, value) ==
    IF name \in DOMAIN i.global_env
    THEN ROk([i EXCEPT !.global_env[name] = value], Value_Nil)
    ELSE RErr(i, UndefinedVariable(name))

Interpreter_set_var(i, var, value) ==
    IF is_some(var.target) THEN Interpreter_assign_to(i, unwrap(var.target), value)
    ELSE GlobalEnvironment_assign(i, var.ident.name, value)

GlobalEnvironment_get(i, name) ==
    IF name \in DOMAIN i.global_env THEN ROk(i, i.global_env[name])
    ELSE RErr(i, UndefinedVariable(name))

Interpreter_get_var(i, var) ==
    IF is_some(var.target)
    THEN IF i.env = 0 THEN RAbort("panic", i, "get_var: unwrap on None")
         ELSE With(Environment_get(i.frames, i.env, unwrap(var.target)), LAMBDA g :
              IF g.ok THEN ROk(i, g.val) ELSE RAbort("panic", i, "Environment::get"))
    ELSE GlobalEnvironment_get(i, var.ident.name)

\* Instance::bind_method: [i, f], f the bound Function, its closure a new
\* one-slot frame holding the instance.
Instance_bind_method(i, instance, method) ==
    With([Environment_new(1, method.closure) EXCEPT
              !.values[1] = Value_Instance(instance)], LAMBDA closure :
    [i |-> [i EXCEPT !.frames = Append(@, closure)],
     f |-> [declaration |-> method.declaration, closure |-> Len(i.frames) + 1]])

\* A lookup that prefers the class's methods to the instance's fields.
Instance_get_method_first(i, instance, field) ==
    With(i.instances[instance], LAMBDA this :
    With(Class_get_method(i.classes, this.class, field), LAMBDA method :
    IF is_some(method)
    THEN With(Instance_bind_method(i, instance, unwrap(method)), LAMBDA b :
         ROk([b.i EXCEPT !.functions = Append(@, b.f)],
             Value_Function(Len(b.i.functions) + 1)))
    ELSE IF field \in DOMAIN this.fields THEN ROk(i, this.fields[field])
    ELSE RErr(i, UndefinedField(field))))

\* Instance::get
Instance_get(i, instance, field) ==
    With(i.instances[instance], LAMBDA this :
    IF field \in DOMAIN this.fields THEN ROk(i, this.fields[field])
    ELSE With(Class_get_method(i.classes, this.class, field), LAMBDA method :
         IF is_some(method)
         THEN With(Instance_bind_method(i, instance, unwrap(method)), LAMBDA b :
              ROk([b.i EXCEPT !.functions = Append(@, b.f)],
                  Value_Function(Len(b.i.functions) + 1)))
         ELSE RErr(i, UndefinedField(field))))

\* Instance::set
Instance_set(i, instance, field, value) ==
    [i EXCEPT !.instances[instance].fields = (field :> value) @@ @]

\* Class::new: [i, class]
Class_new(i, class, super_class, environment) ==
    With(super_class # 0, LAMBDA withSuper :
    With([Environment_new(1, environment) EXCEPT
              !.values[1] = Value_Class(super_class)], LAMBDA frame :
    With(IF withSuper THEN [i EXCEPT !.frames = Append(@, frame)] ELSE i, LAMBDA i1 :
    With(IF withSuper THEN Len(i.frames) + 1 ELSE environment, LAMBDA env1 :
    [i |-> i1,
     class |-> [var |-> class.var,
                super_class |-> super_class,
                methods |-> Class_collect_methods(class.methods, env1,
                                                  Len(class.methods))]]))))

\* The places of the two operand temporaries of `left == right`.
LeftTemporary == "left temporary"
RightTemporary == "right temporary"

\* A call site that hands on whatever f.call returned.
FnCall_result_leak(r) == r

\* The match of visit_fn_call on the result of f.call (lines 222-228).
FnCall_result(r) ==
    IF r.st = "err" /\ r.val.e = "Return" THEN ROk(r.i, r.val.value) ELSE r

\* The arithmetic and comparison operators on two numbers.
Abs(n) == IF n < 0 THEN 0 - n ELSE n
binary_arith(i, operator, l, r) ==
    CASE operator = "Minus" -> ROk(i, Value_Number(l - r))
      [] operator = "Multiply" -> ROk(i, Value_Number(l * r))
      [] operator = "Divide" ->
            IF r # 0 /\ Abs(l) % Abs(r) = 0
            THEN ROk(i, Value_Number((IF (l < 0) = (r < 0) THEN 1 ELSE -1)
                                     * (Abs(l) \div Abs(r))))
            ELSE RAbort("unmodelled", i, "division")
      [] operator = "Greater" -> ROk(i, Value_Bool(l > r))
      [] operator = "GreaterEqual" -> ROk(i, Value_Bool(l >= r))
      [] operator = "Less" -> ROk(i, Value_Bool(l < r))
      [] operator = "LessEqual" -> ROk(i, Value_Bool(l <= r))


\* Evaluation re-enters itself through one operator: a call of an evaluating
\* function that is defined further down is written Call_<function> and
\* reaches the function through Interpreter_call, which selects it by name.
RECURSIVE Interpreter_call(_, _)
Call_binary_arith(i, operator, l, r) == Interpreter_call("binary_arith", <<i, operator, l, r>>)
Call_Interpreter_get_number(i, expr) == Interpreter_call("Interpreter_get_number", <<i, expr>>)
Call_Interpreter_walk_stmts(i, block, n) == Interpreter_call("Interpreter_walk_stmts", <<i, block, n>>)
Call_Interpreter_execute_block(i, block, environment) == Interpreter_call("Interpreter_execute_block", <<i, block, environment>>)
Call_Interpreter_visit_print(i, print) == Interpreter_call("Interpreter_visit_print", <<i, print>>)
Call_Interpreter_visit_block(i, block) == Interpreter_call("Interpreter_visit_block", <<i, block>>)
Call_Interpreter_visit_if(i, if_stmt) == Interpreter_call("Interpreter_visit_if", <<i, if_stmt>>)
Call_Interpreter_while_loop(i, while_stmt) == Interpreter_call("Interpreter_while_loop", <<i, while_stmt>>)
Call_Interpreter_visit_while(i, while_stmt) == Interpreter_call("Interpreter_visit_while", <<i, while_stmt>>)
Call_Interpreter_visit_return(i, return_stmt) == Interpreter_call("Interpreter_visit_return", <<i, return_stmt>>)
Call_Interpreter_visit_var_decl(i, var_decl) == Interpreter_call("Interpreter_visit_var_decl", <<i, var_decl>>)
Call_Interpreter_visit_expression(i, expression) == Interpreter_call("Interpreter_visit_expression", <<i, expression>>)
Call_Interpreter_walk_stmt(i, stmt) == Interpreter_call("Interpreter_walk_stmt", <<i, stmt>>)
Call_Function_call(i, self, arguments) == Interpreter_call("Function_call", <<i, self, arguments>>)
Call_Class_call(i, self, arguments) == Interpreter_call("Class_call", <<i, self, arguments>>)
Call_Callable_call(i, f, arguments) == Interpreter_call("Callable_call", <<i, f, arguments>>)
Call_Interpreter_walk_arguments(i, args, n, arguments) == Interpreter_call("Interpreter_walk_arguments", <<i, args, n, arguments>>)
Call_Interpreter_visit_fn_call(i, fn_call) == Interpreter_call("Interpreter_visit_fn_call", <<i, fn_call>>)
Call_Interpreter_visit_get(i, get) == Interpreter_call("Interpreter_visit_get", <<i, get>>)
Call_Interpreter_visit_set(i, set) == Interpreter_call("Interpreter_visit_set", <<i, set>>)
Call_Interpreter_visit_assign(i, assign) == Interpreter_call("Interpreter_visit_assign", <<i, assign>>)
Call_Interpreter_visit_plus(i, binary) == Interpreter_call("Interpreter_visit_plus", <<i, binary>>)
Call_Interpreter_visit_binary(i, binary) == Interpreter_call("Interpreter_visit_binary", <<i, binary>>)
Call_Interpreter_visit_unary(i, unary) == Interpreter_call("Interpreter_visit_unary", <<i, unary>>)
Call_Interpreter_visit_ternary(i, ternary) == Interpreter_call("Interpreter_visit_ternary", <<i, ternary>>)
Call_Interpreter_visit_group(i, group) == Interpreter_call("Interpreter_visit_group", <<i, group>>)
Call_Interpreter_walk_expr(i, e) == Interpreter_call("Interpreter_walk_expr", <<i, e>>)
RECURSIVE Function_assign_params(_, _, _, _, _)

Interpreter_get_number(i, expr) ==
    Try(Call_Interpreter_walk_expr(i, expr), LAMBDA value :
    IF value.val.t = "Number" THEN ROk(value.i, value.val.v)
    ELSE RErr(value.i, RuntimeError_type_error(Expr_get_span(expr), "number", value.val)))

\* The statements of a block closure or of interpret, from the n-th on.
Interpreter_walk_stmts(i, block, n) ==
    IF n > Len(block) THEN ROk(i, Value_Nil)
    ELSE Try(Call_Interpreter_walk_stmt(i, block[n]), LAMBDA r :
         Call_Interpreter_walk_stmts(r.i, block, n + 1))

\* A restoration that is skipped when the closure returned Err.
Interpreter_restore_env_on_ok(result, prev) ==
    IF result.st = "ok" THEN [result.i EXCEPT !.env = prev] ELSE result.i

\* `self.env = prev` of execute_block (line 109), which runs whenever the
\* closure returned; a panic unwinds past it.
Interpreter_restore_env(result, prev) ==
    IF result.st \in {"ok", "err"} THEN [result.i EXCEPT !.env = prev] ELSE result.i

\* execute_block; environment is the frame already placed on the heap.
Interpreter_execute_block(i, block, environment) ==
    With(i.env, LAMBDA prev :
    With(Call_Interpreter_walk_stmts([i EXCEPT !.env = environment], block, 1), LAMBDA result :
    With(Interpreter_restore_env(result, prev), LAMBDA restored :
    [result EXCEPT !.i = Logged(restored,
                                [ev |-> "execute_block", prev |-> prev,
                                 environment |-> environment,
                                 after |-> restored.env, st |-> result.st,
                                 e |-> IF result.st = "err" THEN result.val.e ELSE ""])])))

Interpreter_visit_print(i, print) ==
    Try(Call_Interpreter_walk_expr(i, print.expr), LAMBDA value :
    ROk([value.i EXCEPT !.out = Append(@, Value_to_string(value.i, value.val))],
        Value_Nil))

Interpreter_visit_block(i, block) ==
    Call_Interpreter_execute_block(
        [i EXCEPT !.frames = Append(@, Environment_new(block.num_of_locals, i.env))],
        block.statements, Len(i.frames) + 1)

Interpreter_visit_if(i, if_stmt) ==
    Try(Call_Interpreter_walk_expr(i, if_stmt.condition), LAMBDA condition :
    Try(IF Value_as_bool(condition.val)
        THEN Call_Interpreter_walk_stmt(condition.i, if_stmt.then_branch)
        ELSE IF is_some(if_stmt.else_branch)
        THEN Call_Interpreter_walk_stmt(condition.i, unwrap(if_stmt.else_branch))
        ELSE ROk(condition.i, Value_Nil), LAMBDA branch :
    ROk(branch.i, Value_Nil)))

\* The loop of visit_while; every pass through the body spends one step.
Interpreter_while_loop(i, while_stmt) ==
    Try(Call_Interpreter_walk_expr(i, while_stmt.condition), LAMBDA condition :
    IF ~Value_as_bool(condition.val) THEN ROk(condition.i, Value_Nil)
    ELSE IF condition.i.fuel = 0 THEN RAbort("fuel", condition.i, "while")
    ELSE Try(Call_Interpreter_walk_stmt([condition.i EXCEPT !.fuel = @ - 1],
                                   while_stmt.body), LAMBDA body :
         Call_Interpreter_while_loop(body.i, while_stmt)))

Interpreter_visit_while(i, while_stmt) == Call_Interpreter_while_loop(i, while_stmt)

\* A declaration whose function value captures a copy of the current frame
\* instead of sharing it.
Interpreter_visit_function_copy(i, function) ==
    With(i.env # 0, LAMBDA copied :
    With(IF copied THEN Len(i.frames) + 1 ELSE 0, LAMBDA closure :
    With(IF copied THEN [i EXCEPT !.frames = Append(@, i.frames[i.env])] ELSE i, LAMBDA i1 :
    Interpreter_declare_var(
        Logged([i1 EXCEPT !.functions = Append(@, [declaration |-> function,
                                                   closure |-> closure])],
               [ev |-> "function", function |-> Len(i.functions) + 1, env |-> i.env]),
        function.var, Value_Function(Len(i.functions) + 1)))))

Interpreter_visit_function(i, function) ==
    Interpreter_declare_var(
        Logged([i EXCEPT !.functions = Append(@, [declaration |-> function,
                                                  closure |-> i.env])],
               [ev |-> "function", function |-> Len(i.functions) + 1, env |-> i.env]),
        function.var, Value_Function(Len(i.functions) + 1))

Interpreter_visit_class(i, class) ==
    Try(IF is_some(class.super_class)
        THEN Try(Interpreter_get_var(i, unwrap(class.super_class)), LAMBDA v :
             IF v.val.t = "Class" THEN ROk(v.i, v.val.v)
             ELSE RErr(v.i, InvalidSuperClass(unwrap(class.super_class).ident.span)))
        ELSE ROk(i, 0), LAMBDA super_class :
    With(Class_new(super_class.i, class, super_class.val, i.env), LAMBDA c :
    Interpreter_declare_var(
        [c.i EXCEPT !.classes = Append(@, c.class)],
        class.var, Value_Class(Len(c.i.classes) + 1))))

Interpreter_visit_return(i, return_stmt) ==
    Try(IF is_some(return_stmt.expr)
        THEN Call_Interpreter_walk_expr(i, unwrap(return_stmt.expr))
        ELSE ROk(i, Value_Nil), LAMBDA value :
    RErr(value.i, Return(return_stmt.span, value.val)))

Interpreter_visit_var_decl(i, var_decl) ==
    Try(IF is_some(var_decl.initializer)
        THEN Call_Interpreter_walk_expr(i, unwrap(var_decl.initializer))
        ELSE ROk(i, Value_Nil), LAMBDA init :
    Interpreter_declare_var(init.i, var_decl.var, init.val))

Interpreter_visit_expression(i, expression) == Call_Interpreter_walk_expr(i, expression.expr)

Interpreter_walk_stmt(i, stmt) ==
    CASE stmt.k = "Print" -> Call_Interpreter_visit_print(i, stmt)
      [] stmt.k = "Expression" -> Call_Interpreter_visit_expression(i, stmt)
      [] stmt.k = "Var" -> Call_Interpreter_visit_var_decl(i, stmt)
      [] stmt.k = "Block" -> Call_Interpreter_visit_block(i, stmt)
      [] stmt.k = "If" -> Call_Interpreter_visit_if(i, stmt)
      [] stmt.k = "While" -> Call_Interpreter_visit_while(i, stmt)
      [] stmt.k = "FnDecl" -> Interpreter_visit_function(i, stmt)
      [] stmt.k = "Return" -> Call_Interpreter_visit_return(i, stmt)
      [] stmt.k = "ClassDecl" -> Interpreter_visit_class(i, stmt)


\* The zip loop of Function::call on the new frame, from the n-th parameter.
Function_assign_params(frames, environment, params, arguments, n) ==
    IF n > Len(params) \/ n > Len(arguments) THEN [ok |-> TRUE, frames |-> frames]
    ELSE IF ~is_some(params[n].target) THEN [ok |-> FALSE, frames |-> frames]
    ELSE With(Environment_assign(frames, environment, unwrap(params[n].target),
                                 arguments[n]), LAMBDA a :
         IF ~a.ok THEN a
         ELSE Function_assign_params(a.frames, environment, params, arguments, n + 1))

\* Function::call; every call spends one step.
Function_call(i, self, arguments) ==
    IF i.fuel = 0 THEN RAbort("fuel", i, "call")
    ELSE With(Len(i.frames) + 1, LAMBDA environment :
         With(Append(i.frames,
                     Environment_new(self.declaration.num_of_locals, self.closure)), LAMBDA frames :
         With(Function_assign_params(frames, environment, self.declaration.params,
                                     arguments, 1), LAMBDA a :
         IF ~a.ok THEN RAbort("panic", i, "Function::call")
         ELSE Call_Interpreter_execute_block(
                  [i EXCEPT !.frames = a.frames, !.fuel = @ - 1],
                  self.declaration.body, environment))))

\* <Rc<Class> as Callable>::call
Class_call(i, self, arguments) ==
    With(Len(i.instances) + 1, LAMBDA instance :
    With([i EXCEPT !.instances = Append(@, [class |-> self, fields |-> EmptyMap])], LAMBDA i1 :
    With(Class_get_method(i.classes, self, "init"), LAMBDA initializer :
    IF ~is_some(initializer) THEN ROk(i1, Value_Instance(instance))
    ELSE With(Instance_bind_method(i1, instance, unwrap(initializer)), LAMBDA b :
         With(Call_Function_call(b.i, b.f, arguments), LAMBDA r :
         With(Logged(r.i, [ev |-> "init", class |-> self, instance |-> instance,
                           this |-> b.i.frames[b.f.closure].values[1],
                           declaration |-> b.f.declaration,
                           arguments |-> arguments,
                           result |-> [st |-> r.st, val |-> r.val]]), LAMBDA i2 :
         CASE r.st = "ok" -> ROk(i2, Value_Instance(instance))
           [] r.st = "err" /\ r.val.e = "Return" ->
                 IF r.val.value.t # "Nil"
                 THEN RErr(i2, ReturnInConstructor(r.val.span))
                 ELSE ROk(i2, Value_Instance(instance))
           [] OTHER -> [r EXCEPT !.i = i2]))))))

\* The native function clock.
NativeFunction_call(i, name, arguments) == ROk(i, Value_Number(i.now))

Callable_arity(i, f) ==
    CASE f.t = "NativeFunction" -> 0
      [] f.t = "Function" -> Function_arity(i.functions[f.v])
      [] f.t = "Class" -> Class_arity(i.classes, f.v)

Callable_call(i, f, arguments) ==
    CASE f.t = "NativeFunction" -> NativeFunction_call(i, f.v, arguments)
      [] f.t = "Function" -> Call_Function_call(i, i.functions[f.v], arguments)
      [] f.t = "Class" -> Call_Class_call(i, f.v, arguments)

\* The argument loop of visit_fn_call: val is the vector of values.
Interpreter_walk_arguments(i, args, n, arguments) ==
    IF n > Len(args) THEN ROk(i, arguments)
    ELSE Try(Call_Interpreter_walk_expr(i, args[n]), LAMBDA arg :
         Call_Interpreter_walk_arguments(arg.i, args, n + 1, Append(arguments, arg.val)))

Interpreter_visit_fn_call(i, fn_call) ==
    Try(Call_Interpreter_walk_expr(i, fn_call.callee), LAMBDA callee :
    Try(Call_Interpreter_walk_arguments(callee.i, fn_call.arguments, 1, <<>>), LAMBDA arguments :
    IF callee.val.t \notin {"NativeFunction", "Function", "Class"}
    THEN RErr(arguments.i, NotCallable(Value_to_string(arguments.i, callee.val),
                                       Expr_get_span(fn_call.callee)))
    ELSE With(Callable_arity(arguments.i, callee.val), LAMBDA arity :
         IF Len(arguments.val) # arity
         THEN RErr(Logged(arguments.i, [ev |-> "arity", callee |-> callee.val,
                                        expected |-> arity, got |-> Len(arguments.val)]),
                   ArgumentsNotMatch(arity, Len(arguments.val), Expr_get_span(fn_call.callee)))
         ELSE With(Call_Callable_call(arguments.i, callee.val, arguments.val), LAMBDA raw :
              With(FnCall_result(raw), LAMBDA r :
              [r EXCEPT !.i = Logged(r.i, [ev |-> "fn_call", callee |-> callee.val,
                                           expected |-> arity,
                                           got |-> Len(arguments.val),
                                           instances |-> Len(arguments.i.instances),
                                           env |-> [before |-> i.env, after |-> r.i.env],
                                           raw |-> [st |-> raw.st, val |-> raw.val],
                                           result |-> [st |-> r.st, val |-> r.val]])])))))

Interpreter_visit_get(i, get) ==
    Try(Call_Interpreter_walk_expr(i, get.object), LAMBDA object :
    IF object.val.t = "Instance"
    THEN With(Instance_get(object.i, object.val.v, get.field.name), LAMBDA r :
         [r EXCEPT !.i = Logged(r.i, [ev |-> "get", instance |-> object.val.v,
                                      field |-> get.field.name,
                                      before |-> object.i.instances,
                                      frames |-> r.i.frames,
                                      result |-> [st |-> r.st, val |-> r.val]])])
    ELSE RErr(object.i, InvalidFieldTarget(Value_type_name(object.val), get.field.name)))

Interpreter_visit_set(i, set) ==
    Try(Call_Interpreter_walk_expr(i, set.target.object), LAMBDA object :
    IF object.val.t = "Instance"
    THEN Try(Call_Interpreter_walk_expr(object.i, set.value), LAMBDA value :
         With(Instance_set(value.i, object.val.v, set.target.field.name,
                           value.val), LAMBDA i1 :
         ROk(Logged(i1, [ev |-> "set", instance |-> object.val.v,
                         field |-> set.target.field.name, value |-> value.val,
                         before |-> [instances |-> value.i.instances,
                                     classes |-> value.i.classes],
                         after |-> [instances |-> i1.instances,
                                    classes |-> i1.classes]]),
             value.val)))
    ELSE RErr(object.i, InvalidFieldTarget(Value_type_name(object.val),
                                           set.target.field.name)))

Interpreter_visit_assign(i, assign) ==
    Try(Call_Interpreter_walk_expr(i, assign.value), LAMBDA value :
    Try(Interpreter_set_var(value.i, assign.var, value.val), LAMBDA s : ROk(s.i, value.val)))

Interpreter_visit_literal(i, literal) == ROk(i, Value_from_lit(literal.value))


Interpreter_visit_plus(i, binary) ==
    Try(Call_Interpreter_walk_expr(i, binary.left), LAMBDA left :
    With(Call_Interpreter_walk_expr(left.i, binary.right), LAMBDA right :
    With(left.val, LAMBDA l :
    With(right.val, LAMBDA r :
    IF right.st # "ok" THEN right
    ELSE CASE l.t = "Number" /\ r.t = "Number" -> ROk(right.i, Value_Number(l.v + r.v))
           [] l.t = "String" ->
                 ROk(right.i, Value_String(l.v \o Value_to_string(right.i, r)))
           [] l.t # "String" /\ r.t = "String" ->
                 ROk(right.i, Value_String(Value_to_string(right.i, l) \o r.v))
           [] l.t \notin {"Number", "String"} /\ r.t = "Number" ->
                 RErr(right.i, RuntimeError_type_error(
                                   Expr_get_span(binary.left), "number", l))
           [] l.t = "Number" /\ r.t \notin {"Number", "String"} ->
                 RErr(right.i, RuntimeError_type_error(
                                   Expr_get_span(binary.right), "number or string", r))
           [] OTHER ->
                 RErr(right.i, RuntimeError_type_error(
                                   Expr_get_span(binary.left), "number or string", l))))))

Interpreter_visit_binary(i, binary) ==
    CASE binary.operator = "Plus" -> Call_Interpreter_visit_plus(i, binary)
      [] binary.operator \in {"Equal", "NotEqual"} ->
            Try(Call_Interpreter_walk_expr(i, binary.left), LAMBDA left :
            Try(Call_Interpreter_walk_expr(left.i, binary.right), LAMBDA right :
            With(Value_eq([at |-> LeftTemporary, value |-> left.val],
                          [at |-> RightTemporary, value |-> right.val]), LAMBDA eq :
            ROk(right.i,
                Value_Bool(IF binary.operator = "Equal" THEN eq ELSE ~eq)))))
      [] binary.operator \in {"And", "Or"} ->
            Try(Call_Interpreter_walk_expr(i, binary.left), LAMBDA left :
            CASE binary.operator = "And" /\ ~Value_as_bool(left.val) -> left
              [] binary.operator = "Or" /\ Value_as_bool(left.val) -> left
              [] OTHER -> Call_Interpreter_walk_expr(left.i, binary.right))
      [] OTHER ->
            Try(Call_Interpreter_get_number(i, binary.left), LAMBDA left :
            Try(Call_Interpreter_get_number(left.i, binary.right), LAMBDA right :
            Call_binary_arith(right.i, binary.operator, left.val, right.val)))

Interpreter_visit_unary(i, unary) ==
    IF unary.operator = "Negative"
    THEN Try(Call_Interpreter_get_number(i, unary.operand), LAMBDA n :
         ROk(n.i, Value_Number(0 - n.val)))
    ELSE Try(Call_Interpreter_walk_expr(i, unary.operand), LAMBDA v :
         ROk(v.i, Value_Bool(~Value_as_bool(v.val))))

Interpreter_visit_ternary(i, ternary) ==
    Try(Call_Interpreter_walk_expr(i, ternary.condition), LAMBDA condition :
    IF Value_as_bool(condition.val)
    THEN Call_Interpreter_walk_expr(condition.i, ternary.truthy)
    ELSE Call_Interpreter_walk_expr(condition.i, ternary.falsy))

Interpreter_visit_super(i, super_expr) ==
    Try(Interpreter_get_var(i, super_expr.var), LAMBDA super_class :
    IF super_class.val.t # "Class"
    THEN RErr(i, InvalidSuperClass(super_expr.var.ident.span))
    ELSE With(Class_get_method(i.classes, super_class.val.v,
                               super_expr.method.name), LAMBDA method :
         IF ~is_some(method) THEN RErr(i, UndefinedField(super_expr.method.name))
         ELSE IF ~is_some(super_expr.var.target) \/ unwrap(super_expr.var.target).scope_count = 0
         THEN RAbort("panic", i, "visit_super")
         ELSE Try(Interpreter_get_var(i, [ident |-> Ident_from_name("", Span_dummy),
                                          target |-> Some(IdentTarget(
                                              unwrap(super_expr.var.target).scope_count - 1,
                                              0))]), LAMBDA instance :
              IF instance.val.t # "Instance" THEN RAbort("panic", i, "unreachable")
              ELSE With(Instance_bind_method(i, instance.val.v, unwrap(method)), LAMBDA b :
                   ROk([b.i EXCEPT !.functions = Append(@, b.f)],
                       Value_Function(Len(b.i.functions) + 1))))))

Interpreter_visit_var(i, var) == Interpreter_get_var(i, var)

Interpreter_visit_group(i, group) == Call_Interpreter_walk_expr(i, group.expr)

Interpreter_walk_expr(i, e) ==
    CASE e.k = "Binary" -> Call_Interpreter_visit_binary(i, e)
      [] e.k = "Unary" -> Call_Interpreter_visit_unary(i, e)
      [] e.k = "Group" -> Call_Interpreter_visit_group(i, e)
      [] e.k = "Literal" -> Interpreter_visit_literal(i, e)
      [] e.k = "Ternary" -> Call_Interpreter_visit_ternary(i, e)
      [] e.k = "Assign" -> Call_Interpreter_visit_assign(i, e)
      [] e.k = "Var" -> Interpreter_visit_var(i, e.var)
      [] e.k = "FnCall" -> Call_Interpreter_visit_fn_call(i, e)
      [] e.k = "Get" -> Call_Interpreter_visit_get(i, e)
      [] e.k = "Set" -> Call_Interpreter_visit_set(i, e)
      [] e.k = "Super" -> Interpreter_visit_super(i, e)


Interpreter_call(f, a) ==
    CASE f = "binary_arith" -> binary_arith(a[1], a[2], a[3], a[4])
      [] f = "Interpreter_get_number" -> Interpreter_get_number(a[1], a[2])
      [] f = "Interpreter_walk_stmts" -> Interpreter_walk_stmts(a[1], a[2], a[3])
      [] f = "Interpreter_execute_block" -> Interpreter_execute_block(a[1], a[2], a[3])
      [] f = "Interpreter_visit_print" -> Interpreter_visit_print(a[1], a[2])
      [] f = "Interpreter_visit_block" -> Interpreter_visit_block(a[1], a[2])
      [] f = "Interpreter_visit_if" -> Interpreter_visit_if(a[1], a[2])
      [] f = "Interpreter_while_loop" -> Interpreter_while_loop(a[1], a[2])
      [] f = "Interpreter_visit_while" -> Interpreter_visit_while(a[1], a[2])
      [] f = "Interpreter_visit_return" -> Interpreter_visit_return(a[1], a[2])
      [] f = "Interpreter_visit_var_decl" -> Interpreter_visit_var_decl(a[1], a[2])
      [] f = "Interpreter_visit_expression" -> Interpreter_visit_expression(a[1], a[2])
      [] f = "Interpreter_walk_stmt" -> Interpreter_walk_stmt(a[1], a[2])
      [] f = "Function_call" -> Function_call(a[1], a[2], a[3])
      [] f = "Class_call" -> Class_call(a[1], a[2], a[3])
      [] f = "Callable_call" -> Callable_call(a[1], a[2], a[3])
      [] f = "Interpreter_walk_arguments" -> Interpreter_walk_arguments(a[1], a[2], a[3], a[4])
      [] f = "Interpreter_visit_fn_call" -> Interpreter_visit_fn_call(a[1], a[2])
      [] f = "Interpreter_visit_get" -> Interpreter_visit_get(a[1], a[2])
      [] f = "Interpreter_visit_set" -> Interpreter_visit_set(a[1], a[2])
      [] f = "Interpreter_visit_assign" -> Interpreter_visit_assign(a[1], a[2])
      [] f = "Interpreter_visit_plus" -> Interpreter_visit_plus(a[1], a[2])
      [] f = "Interpreter_visit_binary" -> Interpreter_visit_binary(a[1], a[2])
      [] f = "Interpreter_visit_unary" -> Interpreter_visit_unary(a[1], a[2])
      [] f = "Interpreter_visit_ternary" -> Interpreter_visit_ternary(a[1], a[2])
      [] f = "Interpreter_visit_group" -> Interpreter_visit_group(a[1], a[2])
      [] f = "Interpreter_walk_expr" -> Interpreter_walk_expr(a[1], a[2])

(***************************************************************************)
(* The bytecode encoder (lox_bytecode_ops, lox_macros): Encode for the     *)
(* operands, the encoder derive(OpCodec) generates for Operation and for   *)
(* a slice of Operations, and OpWriter.  An f64 is modelled when its value *)
(* is an integer, a byte as a number of 0..U8-1.                           *)
(***************************************************************************)
\* The variants of enum Operation in the order of their declaration, each
\* with the types of its unnamed fields.
Operation ==
    <<[ident |-> "LoadNumber", fields |-> <<"f64">>],
      [ident |-> "LoadString", fields |-> <<"StringSymbol">>],
      [ident |-> "LoadBool", fields |-> <<"bool">>],
      [ident |-> "LoadNil", fields |-> <<>>],
      [ident |-> "Negative", fields |-> <<>>],
      [ident |-> "Not", fields |-> <<>>],
      [ident |-> "Plus", fields |-> <<>>],
      [ident |-> "Minus", fields |-> <<>>],
      [ident |-> "Multiply", fields |-> <<>>],
      [ident |-> "Divide", fields |-> <<>>],
      [ident |-> "And", fields |-> <<>>],
      [ident |-> "Or", fields |-> <<>>],
      [ident |-> "Greater", fields |-> <<>>],
      [ident |-> "GreaterEqual", fields |-> <<>>],
      [ident |-> "Less", fields |-> <<>>],
      [ident |-> "LessEqual", fields |-> <<>>],
      [ident |-> "Equal", fields |-> <<>>],
      [ident |-> "NotEqual", fields |-> <<>>]>>

OpWriter_new == [buf |-> <<>>]
OpWriter_write(w, buf) == [w EXCEPT !.buf = @ \o buf]
\* mem::take: the buffer is returned and an empty one is left behind.
OpWriter_flush(w) == [writer |-> [w EXCEPT !.buf = <<>>], val |-> w.buf]

\* The bits of n, most significant first, in `width` bits.
RECURSIVE BitsOf(_, _)
BitsOf(n, width) ==
    IF width = 0 THEN <<>> ELSE Append(BitsOf(n \div 2, width - 1), n % 2)

RECURSIVE ValueOfBits(_)
ValueOfBits(bits) ==
    IF bits = <<>> THEN 0
    ELSE 2 * ValueOfBits(SubSeq(bits, 1, Len(bits) - 1)) + bits[Len(bits)]

\* The bytes of a sequence of bits, the byte of the last bits first.
LeBytesOfBits(bits) ==
    [k \in 1..(Len(bits) \div 8) |->
        ValueOfBits(SubSeq(bits, Len(bits) - 8 * k + 1, Len(bits) - 8 * k + 8))]

\* The four bytes of a u32 from the most significant one.
u32_to_be_bytes(v) ==
    <<v \div (U8 * U8 * U8), (v \div (U8 * U8)) % U8, (v \div U8) % U8, v % U8>>
\* u32::to_le_bytes
u32_to_le_bytes(v) ==
    <<v % U8, (v \div U8) % U8, (v \div (U8 * U8)) % U8, v \div (U8 * U8 * U8)>>

\* The binary64 format of an integer n: sign, biased exponent in 11 bits,
\* and the 52 bits of the fraction after the leading one.
f64_exponent(n) == CHOOSE e \in 0..30 : 2^e <= Abs(n) /\ (e = 30 \/ Abs(n) < 2^(e + 1))
f64_to_bits(n) ==
    IF n = 0 THEN [k \in 1..64 |-> 0]
    ELSE With(f64_exponent(n), LAMBDA e :
         <<IF n < 0 THEN 1 ELSE 0>> \o BitsOf(e + 1023, 11)
            \o BitsOf(Abs(n) - 2^e, e) \o [k \in 1..(52 - e) |-> 0])
\* f64::to_le_bytes
f64_to_le_bytes(n) == LeBytesOfBits(f64_to_bits(n))

bool_encode(w, self) == OpWriter_write(w, <<IF self THEN 1 ELSE 0>>)
f64_encode(w, self) == OpWriter_write(w, f64_to_le_bytes(self))
StringSymbol_encode(w, self) == OpWriter_write(w, u32_to_le_bytes(self))

\* #fields.encode(writer): the impl of Encode the type of the field selects.
Field_encode(w, type, arg) ==
    CASE type = "f64" -> f64_encode(w, arg)
      [] type = "StringSymbol" -> StringSymbol_encode(w, arg)
      [] type = "bool" -> bool_encode(w, arg)

RECURSIVE Fields_encode(_, _, _)
Fields_encode(w, types, args) ==
    IF types = <<>> THEN w
    ELSE Fields_encode(Field_encode(w, Head(types), Head(args)), Tail(types), Tail(args))

\* The arm derive_encode_for_operation generates for the variant at index
\* op_code of the enum, counted from zero: the op code as u8, then the fields.
Operation_encode(w, op) ==
    With(CHOOSE k \in DOMAIN Operation : Operation[k].ident = op.ident, LAMBDA k :
        Fields_encode(OpWriter_write(w, <<(k - 1) % U8>>), Operation[k].fields, op.args))

CodecIdle ==
    /\ operations = <<>>
    /\ writer = OpWriter_new
    /\ encoded = 0
    /\ flushed = None

(***************************************************************************)
(* The driver: run(src) of lox_interpreter_cli/src/main.rs, with           *)
(* Parser::parse and Interpreter::interpret taken one loop pass at a time. *)
(***************************************************************************)
MaxErrors == 3

ClockValues == {1, 2}

ParsePositions == {"parse", "block", "block_sync"}

\* One pass of the loop of Parser::parse whose declaration() returned Ok.
ParseStatement ==
    /\ pc = "parse"
    /\ Parser_look_ahead(parser) # "EOF"
    /\ With(Parser_declaration(parser), LAMBDA d :
       /\ d.st = "ok"
       /\ parser' = d.p
       /\ statements' = Append(statements, d.val))
    /\ UNCHANGED <<src, mode, pc, ast, rerrors, interp, next_stmt, outcome, ran>>
    /\ UNCHANGED unitvars

\* One pass of the loop of Parser::parse whose declaration() returned Err.
ParseError ==
    /\ pc = "parse"
    /\ Parser_look_ahead(parser) # "EOF"
    /\ With(Parser_declaration(parser), LAMBDA d :
       /\ d.st = "err"
       /\ parser' = Parser_synchronize([d.p EXCEPT !.errors = Append(@, d.val)]))
    /\ UNCHANGED <<src, mode, pc, statements, ast, rerrors, interp, next_stmt, outcome, ran>>
    /\ UNCHANGED unitvars

\* declaration() reached a call of block whose loop no longer advances.
ParseEnterBlock ==
    /\ pc = "parse"
    /\ Parser_look_ahead(parser) # "EOF"
    /\ With(Parser_declaration(parser), LAMBDA d :
       /\ d.st = "spin"
       /\ parser' = d.p)
    /\ pc' = "block"
    /\ UNCHANGED <<src, mode, statements, ast, rerrors, interp, next_stmt, outcome, ran>>
    /\ UNCHANGED unitvars

\* Inside that loop of block: declaration() fails and the error is pushed.
\* The model keeps the first MaxErrors entries of self.errors from here on.
BlockDeclaration ==
    /\ pc = "block"
    /\ Parser_look_ahead(parser) # "}"
    /\ With(Parser_declaration(parser), LAMBDA d :
       /\ d.st = "err"
       /\ parser' = [d.p EXCEPT !.errors = IF Len(@) < MaxErrors THEN Append(@, d.val) ELSE @])
    /\ pc' = "block_sync"
    /\ UNCHANGED <<src, mode, statements, ast, rerrors, interp, next_stmt, outcome, ran>>
    /\ UNCHANGED unitvars

\* Inside that loop of block: synchronize(), then the loop condition again.
BlockSynchronize ==
    /\ pc = "block_sync"
    /\ parser' = Parser_synchronize(parser)
    /\ pc' = "block"
    /\ UNCHANGED <<src, mode, statements, ast, rerrors, interp, next_stmt, outcome, ran>>
    /\ UNCHANGED unitvars

\* parse returns Ok(statements); run goes on to the resolver.
ParseReturnOk ==
    /\ pc = "parse"
    /\ Parser_look_ahead(parser) = "EOF"
    /\ parser.errors = <<>>
    /\ ast' = statements
    /\ pc' = "resolve"
    /\ UNCHANGED <<src, mode, parser, statements, rerrors, interp, next_stmt, outcome, ran>>
    /\ UNCHANGED unitvars

\* parse returns Err(errors); run prints them and returns.
ParseReturnErr ==
    /\ pc = "parse"
    /\ Parser_look_ahead(parser) = "EOF"
    /\ parser.errors # <<>>
    /\ outcome' = [st |-> "parse_errors", val |-> parser.errors]
    /\ pc' = "done"
    /\ UNCHANGED <<src, mode, parser, statements, ast, rerrors, interp, next_stmt, ran>>
    /\ UNCHANGED unitvars

\* resolve returns None; run goes on to interpret.
ResolveOk ==
    /\ pc = "resolve"
    /\ With(Resolver_resolve(ast), LAMBDA r :
       /\ r.errors = <<>>
       /\ ast' = r.ast
       /\ rerrors' = r.errors)
    /\ ran' = ran \cup {"resolver", "interpreter"}
    /\ pc' = "interpret"
    /\ UNCHANGED <<src, mode, parser, statements, interp, next_stmt, outcome>>
    /\ UNCHANGED unitvars

\* A run that interprets the tree although resolve returned errors.
ResolveErr_interprets ==
    /\ pc = "resolve"
    /\ mode = "run"
    /\ With(Resolver_resolve(ast), LAMBDA r :
       /\ r.errors # <<>>
       /\ ast' = r.ast
       /\ rerrors' = r.errors)
    /\ ran' = ran \cup {"resolver", "interpreter"}
    /\ pc' = "interpret"
    /\ UNCHANGED <<src, mode, parser, statements, interp, next_stmt, outcome>>
    /\ UNCHANGED unitvars

\* resolve returns Some(errors); run prints them and returns.
ResolveErr ==
    /\ pc = "resolve"
    /\ mode = "run"
    /\ With(Resolver_resolve(ast), LAMBDA r :
       /\ r.errors # <<>>
       /\ ast' = r.ast
       /\ rerrors' = r.errors
       /\ outcome' = [st |-> "resolver_errors", val |-> r.errors])
    /\ ran' = ran \cup {"resolver"}
    /\ pc' = "done"
    /\ UNCHANGED <<src, mode, parser, statements, interp, next_stmt>>
    /\ UNCHANGED unitvars

\* resolve returns Some(errors) to a host that interprets the tree anyway.
ResolveErrIgnored ==
    /\ pc = "resolve"
    /\ mode = "embed"
    /\ With(Resolver_resolve(ast), LAMBDA r :
       /\ r.errors # <<>>
       /\ ast' = r.ast
       /\ rerrors' = r.errors)
    /\ ran' = ran \cup {"resolver", "interpreter"}
    /\ pc' = "interpret"
    /\ UNCHANGED <<src, mode, parser, statements, interp, next_stmt, outcome>>
    /\ UNCHANGED unitvars

\* One pass of the loop of interpret whose visit_stmt returned Ok.
InterpretStatement ==
    /\ pc = "interpret"
    /\ next_stmt <= Len(ast)
    /\ \E now \in ClockValues :
        With(Interpreter_walk_stmt([interp EXCEPT !.now = now], ast[next_stmt]), LAMBDA r :
        /\ r.st = "ok"
        /\ interp' = [r.i EXCEPT !.now = 0])
    /\ next_stmt' = next_stmt + 1
    /\ UNCHANGED <<src, mode, pc, parser, statements, ast, rerrors, outcome, ran>>
    /\ UNCHANGED unitvars

\* visit_stmt did not return Ok: interpret returns the error (or the thread
\* panics); run prints it and returns.
InterpretFail ==
    /\ pc = "interpret"
    /\ next_stmt <= Len(ast)
    /\ \E now \in ClockValues :
        With(Interpreter_walk_stmt([interp EXCEPT !.now = now], ast[next_stmt]), LAMBDA r :
        /\ r.st # "ok"
        /\ interp' = [r.i EXCEPT !.now = 0]
        /\ outcome' = [st |-> r.st, val |-> r.val])
    /\ pc' = "done"
    /\ UNCHANGED <<src, mode, parser, statements, ast, rerrors, next_stmt, ran>>
    /\ UNCHANGED unitvars

\* interpret returns Ok(Value::Nil).
InterpretReturn ==
    /\ pc = "interpret"
    /\ next_stmt > Len(ast)
    /\ outcome' = [st |-> "ok", val |-> Value_Nil]
    /\ pc' = "done"
    /\ UNCHANGED <<src, mode, parser, statements, ast, rerrors, interp, next_stmt, ran>>
    /\ UNCHANGED unitvars

\* main and run_from_file: run prints what parse, resolve or interpret
\* reported and returns, and main returns after it, so the process ends
\* with the exit code 0; a panic ends it with the exit code 101.  A run that
\* has not ended, or ended outside the model, has no exit code.
main_exit_code ==
    CASE outcome.st \in {"ok", "err", "parse_errors", "resolver_errors"} -> Some(0)
      [] outcome.st = "panic" -> Some(101)
      [] OTHER -> None


(***************************************************************************)
(* The programs the model runs, as token sequences                         *)
(***************************************************************************)
\* print v ? 'A' : 'B';
TernaryProg(v) ==
    <<"print", v, "?", "'A'", ":", "'B'", ";">>

\* print !v;
NotProg(v) ==
    <<"print", "!", v, ";">>

\* if (v) print 'A'; print 'B';
IfProg(v) ==
    <<"if", "(", v, ")", "print", "'A'", ";", "print", "'B'", ";">>

\* var c = v; while (c) { print 'A'; c = nil; } print 'B';
WhileProg(v) ==
    <<"var", "c", "=", v, ";", "while", "(", "c", ")", "{", "print", "'A'", ";", "c",
      "=", "nil", ";", "}", "print", "'B'", ";">>

\* var m = 0; var n = 0; fun a() { m = m + 1; return v; } fun b() { n = n + 1; return 'b'; } print a() op b(); print m; print n;
LogicProg(v, op) ==
    <<"var", "m", "=", "0", ";", "var", "n", "=", "0", ";", "fun", "a", "(", ")", "{",
      "m", "=", "m", "+", "1", ";", "return", v, ";", "}", "fun", "b", "(", ")", "{",
      "n", "=", "n", "+", "1", ";", "return", "'b'", ";", "}", "print", "a", "(", ")",
      op, "b", "(", ")", ";", "print", "m", ";", "print", "n", ";">>

\* fun f() {} print f op f;
SameFunctionProg(op) ==
    <<"fun", "f", "(", ")", "{", "}", "print", "f", op, "f", ";">>

\* class A {} print A op A;
SameClassProg(op) ==
    <<"class", "A", "{", "}", "print", "A", op, "A", ";">>

\* class A {} var a = A(); print a op a;
SameInstanceProg(op) ==
    <<"class", "A", "{", "}", "var", "a", "=", "A", "(", ")", ";", "print", "a", op, "a",
      ";">>

\* fun f() {} fun g() {} print f op g;
DistinctFunctionProg(op) ==
    <<"fun", "f", "(", ")", "{", "}", "fun", "g", "(", ")", "{", "}", "print", "f", op,
      "g", ";">>

\* class A {} var a = A(); var b = A(); print a op b;
DistinctInstanceProg(op) ==
    <<"class", "A", "{", "}", "var", "a", "=", "A", "(", ")", ";", "var", "b", "=", "A",
      "(", ")", ";", "print", "a", op, "b", ";">>

\* print l op r;
ScalarEqProg(l, op, r) ==
    <<"print", l, op, r, ";">>

\* fun f() { { { return 7; } } } { var x = 1; print f(); print x; }
ReturnNestedProg ==
    <<"fun", "f", "(", ")", "{", "{", "{", "return", "7", ";", "}", "}", "}", "{", "var",
      "x", "=", "1", ";", "print", "f", "(", ")", ";", "print", "x", ";", "}">>

\* fun g() { while (true) { { return 1; } } } print g();
ReturnLoopProg ==
    <<"fun", "g", "(", ")", "{", "while", "(", "true", ")", "{", "{", "return", "1", ";",
      "}", "}", "}", "print", "g", "(", ")", ";">>

\* fun h() { print 1; return; print 2; } print h();
ReturnBareProg ==
    <<"fun", "h", "(", ")", "{", "print", "1", ";", "return", ";", "print", "2", ";",
      "}", "print", "h", "(", ")", ";">>

\* fun k() { print 1; } print k();
ReturnNoneProg ==
    <<"fun", "k", "(", ")", "{", "print", "1", ";", "}", "print", "k", "(", ")", ";">>

\* fun inner() { return 2; } fun outer() { print inner(); return 3; } print outer();
ReturnInnerProg ==
    <<"fun", "inner", "(", ")", "{", "return", "2", ";", "}", "fun", "outer", "(", ")",
      "{", "print", "inner", "(", ")", ";", "return", "3", ";", "}", "print", "outer",
      "(", ")", ";">>

\* fun f(x) { if (x) return 1; return 2; } print f(true); print f(false);
ReturnIfProg ==
    <<"fun", "f", "(", "x", ")", "{", "if", "(", "x", ")", "return", "1", ";", "return",
      "2", ";", "}", "print", "f", "(", "true", ")", ";", "print", "f", "(", "false",
      ")", ";">>

\* class A { m() { { return 5; } } } print A().m();
ReturnMethodProg ==
    <<"class", "A", "{", "m", "(", ")", "{", "{", "return", "5", ";", "}", "}", "}",
      "print", "A", "(", ")", ".", "m", "(", ")", ";">>

\* print 1; return;
ReturnTopLevelProg ==
    <<"print", "1", ";", "return", ";">>

\* fun f() { { return 2; } } { var b = f(); { print b; } { print b + nil; } }
BlockErrorProg ==
    <<"fun", "f", "(", ")", "{", "{", "return", "2", ";", "}", "}", "{", "var", "b", "=",
      "f", "(", ")", ";", "{", "print", "b", ";", "}", "{", "print", "b", "+", "nil", ";",
      "}", "}">>

\* fun f() { { return nil - 1; } } { var x = 1; f(); }
CallErrorProg ==
    <<"fun", "f", "(", ")", "{", "{", "return", "nil", "-", "1", ";", "}", "}", "{",
      "var", "x", "=", "1", ";", "f", "(", ")", ";", "}">>

\* var T; var P; fun make() { var n = 0; fun tick() { n = n + 1; return n; } fun peek() { return n; } T = tick; P = peek; } make(); print T(); print T(); print P();
ClosureSharedProg ==
    <<"var", "T", ";", "var", "P", ";", "fun", "make", "(", ")", "{", "var", "n", "=",
      "0", ";", "fun", "tick", "(", ")", "{", "n", "=", "n", "+", "1", ";", "return",
      "n", ";", "}", "fun", "peek", "(", ")", "{", "return", "n", ";", "}", "T", "=",
      "tick", ";", "P", "=", "peek", ";", "}", "make", "(", ")", ";", "print", "T", "(",
      ")", ";", "print", "T", "(", ")", ";", "print", "P", "(", ")", ";">>

\* fun make() { var n = 0; fun tick() { n = n + 1; return n; } return tick; } var a = make(); var b = make(); print a(); print a(); print b();
ClosureTwoProg ==
    <<"fun", "make", "(", ")", "{", "var", "n", "=", "0", ";", "fun", "tick", "(", ")",
      "{", "n", "=", "n", "+", "1", ";", "return", "n", ";", "}", "return", "tick", ";",
      "}", "var", "a", "=", "make", "(", ")", ";", "var", "b", "=", "make", "(", ")",
      ";", "print", "a", "(", ")", ";", "print", "a", "(", ")", ";", "print", "b", "(",
      ")", ";">>

\* var T; { var n = 5; fun tick() { n = n + 1; return n; } T = tick; } print T(); print T();
ClosureBlockProg ==
    <<"var", "T", ";", "{", "var", "n", "=", "5", ";", "fun", "tick", "(", ")", "{", "n",
      "=", "n", "+", "1", ";", "return", "n", ";", "}", "T", "=", "tick", ";", "}",
      "print", "T", "(", ")", ";", "print", "T", "(", ")", ";">>

\* class A { init(x) { print x; print this; } } var a = A(7); print a;
ClassInitProg ==
    <<"class", "A", "{", "init", "(", "x", ")", "{", "print", "x", ";", "print", "this",
      ";", "}", "}", "var", "a", "=", "A", "(", "7", ")", ";", "print", "a", ";">>

\* class A { init(x) { print x; } } class B < A {} print B(args);   (args one token)
ClassInheritProg(args) ==
    <<"class", "A", "{", "init", "(", "x", ")", "{", "print", "x", ";", "}", "}",
      "class", "B", "<", "A", "{", "}", "print", "B", "(", args, ")", ";">>

\* class A { init(x) { print x; } } class B < A {} print B();
ClassInheritNoArgProg ==
    <<"class", "A", "{", "init", "(", "x", ")", "{", "print", "x", ";", "}", "}",
      "class", "B", "<", "A", "{", "}", "print", "B", "(", ")", ";">>

\* class C {} print C();
ClassNoInitProg ==
    <<"class", "C", "{", "}", "print", "C", "(", ")", ";">>

\* class C {} print C(1);
ClassNoInitArgProg ==
    <<"class", "C", "{", "}", "print", "C", "(", "1", ")", ";">>

\* class D { init() { print 1; return; print 2; } } print D();
ClassInitReturnProg ==
    <<"class", "D", "{", "init", "(", ")", "{", "print", "1", ";", "return", ";",
      "print", "2", ";", "}", "}", "print", "D", "(", ")", ";">>

\* class E { init() { return 1; } } print E();
ClassInitReturnValueProg ==
    <<"class", "E", "{", "init", "(", ")", "{", "return", "1", ";", "}", "}", "print",
      "E", "(", ")", ";">>

\* class A { f() { return 'A'; } g() { return 'a'; } } class B < A { f() { return 'B'; } } var b = B(); print b.f(); print b.g(); b.f = 'own'; print b.f; print b.h;
PropertyLookupProg ==
    <<"class", "A", "{", "f", "(", ")", "{", "return", "'A'", ";", "}", "g", "(", ")",
      "{", "return", "'a'", ";", "}", "}", "class", "B", "<", "A", "{", "f", "(", ")",
      "{", "return", "'B'", ";", "}", "}", "var", "b", "=", "B", "(", ")", ";", "print",
      "b", ".", "f", "(", ")", ";", "print", "b", ".", "g", "(", ")", ";", "b", ".", "f",
      "=", "'own'", ";", "print", "b", ".", "f", ";", "print", "b", ".", "h", ";">>

\* class P { name() { return this.n; } } var p = P(); p.n = 'a'; var q = P(); q.n = 'b'; var m = p.name; print m(); print q.name();
PropertyBoundProg ==
    <<"class", "P", "{", "name", "(", ")", "{", "return", "this", ".", "n", ";", "}",
      "}", "var", "p", "=", "P", "(", ")", ";", "p", ".", "n", "=", "'a'", ";", "var",
      "q", "=", "P", "(", ")", ";", "q", ".", "n", "=", "'b'", ";", "var", "m", "=", "p",
      ".", "name", ";", "print", "m", "(", ")", ";", "print", "q", ".", "name", "(", ")",
      ";">>

\* class P {} var p = P(); var q = P(); p.x = 1; print p.x; print q.x;
PropertySetProg ==
    <<"class", "P", "{", "}", "var", "p", "=", "P", "(", ")", ";", "var", "q", "=", "P",
      "(", ")", ";", "p", ".", "x", "=", "1", ";", "print", "p", ".", "x", ";", "print",
      "q", ".", "x", ";">>

\* print 1; var a = 2; print;
ParseErrorAfterProg ==
    <<"print", "1", ";", "var", "a", "=", "2", ";", "print", ";">>

\* print 1; var a = 2; { var b; var b; }
RedefineAfterProg ==
    <<"print", "1", ";", "var", "a", "=", "2", ";", "{", "var", "b", ";", "var", "b",
      ";", "}">>

\* print clock();
ClockProg ==
    <<"print", "clock", "(", ")", ";">>


\* Sources that end inside an unclosed construct.
UnclosedSources ==
    { <<"{">>, <<"{", "{">>, <<"{", "print", "1", ";">>, <<"fun", "f", "(", ")", "{">>,
      <<"class", "A", "{">>, <<"class", "A", "{", "m", "(", ")", "{">>,
      <<"fun", "f", "(", "a", ",">>, <<"f", "(", "1", ",">>, <<"while", "(", "true", ")", "{">> }

\* Every source of at most MaxLen tokens over a small alphabet.
MaxLen == 2
Alphabet == {"{", "}", "(", ";", "x", "1", "print", "var", "fun", "return"}
ShortSources == UNION { [1..n -> Alphabet] : n \in 0..MaxLen }

Operands == {"nil", "false", "true", "0", "1", "''", "'a'"}
EqualityOperators == {"==", "!="}

\* { class A { } class B < A { } print B; }
SuperClassInBlockProg ==
    <<"{", "class", "A", "{", "}", "class", "B", "<", "A", "{", "}", "print", "B", ";", "}">>
\* fun f() { class A { } class B < A { } print B; } f();
SuperClassInFunctionProg ==
    <<"fun", "f", "(", ")", "{", "class", "A", "{", "}", "class", "B", "<", "A", "{", "}",
      "print", "B", ";", "}", "f", "(", ")", ";">>
\* { var x = 1; { class A { } class B < A { } print B; } }
SuperClassInInnerBlockProg ==
    <<"{", "var", "x", "=", "1", ";", "{", "class", "A", "{", "}", "class", "B", "<", "A", "{",
      "}", "print", "B", ";", "}", "}">>
\* { class A { } { class B < A { } print B; } }
SuperClassOfOuterBlockProg ==
    <<"{", "class", "A", "{", "}", "{", "class", "B", "<", "A", "{", "}", "print", "B", ";",
      "}", "}">>
LocalSuperClassProgs ==
    {SuperClassInBlockProg, SuperClassInFunctionProg, SuperClassInInnerBlockProg,
     SuperClassOfOuterBlockProg}

\* class A { n() { this = 1; print this; } } A().n();
ThisAssignedProg ==
    <<"class", "A", "{", "n", "(", ")", "{", "this", "=", "1", ";", "print", "this", ";", "}",
      "}", "A", "(", ")", ".", "n", "(", ")", ";">>
\* class A { m() { } } class B < A { n() { this = 1; super.m; } } B().n();
ThisAssignedSuperProg ==
    <<"class", "A", "{", "m", "(", ")", "{", "}", "}", "class", "B", "<", "A", "{", "n", "(",
      ")", "{", "this", "=", "1", ";", "super", ".", "m", ";", "}", "}", "B", "(", ")", ".",
      "n", "(", ")", ";">>
ThisAssignedProgs == {ThisAssignedProg, ThisAssignedSuperProg}

Programs ==
    {TernaryProg(v) : v \in Operands} \cup {NotProg(v) : v \in Operands}
    \cup {IfProg(v) : v \in Operands} \cup {WhileProg(v) : v \in Operands}
    \cup {LogicProg(v, op) : v \in Operands, op \in {"and", "or"}}
    \cup {SameFunctionProg(op) : op \in EqualityOperators}
    \cup {SameClassProg(op) : op \in EqualityOperators}
    \cup {SameInstanceProg(op) : op \in EqualityOperators}
    \cup {DistinctFunctionProg(op) : op \in EqualityOperators}
    \cup {DistinctInstanceProg(op) : op \in EqualityOperators}
    \cup {ScalarEqProg(l, op, r) : l \in {"1", "'a'", "nil"}, op \in EqualityOperators,
                                   r \in {"1", "2", "'a'", "nil", "clock"}}
    \cup {ReturnNestedProg, ReturnLoopProg, ReturnBareProg, ReturnNoneProg, ReturnInnerProg,
          ReturnIfProg, ReturnMethodProg, ReturnTopLevelProg, BlockErrorProg, CallErrorProg,
          ClosureSharedProg, ClosureTwoProg, ClosureBlockProg,
          ClassInitProg, ClassInheritProg("5"), ClassInheritNoArgProg, ClassNoInitProg,
          ClassNoInitArgProg, ClassInitReturnProg, ClassInitReturnValueProg,
          PropertyLookupProg, PropertyBoundProg, PropertySetProg,
          ParseErrorAfterProg, RedefineAfterProg, ClockProg}
    \cup LocalSuperClassProgs \cup ThisAssignedProgs

Sources == Programs \cup UnclosedSources \cup ShortSources

Init ==
    /\ src \in Sources
    /\ mode \in {"run", "embed"}
    /\ pc = "parse"
    /\ parser = Parser_new
    /\ statements = <<>>
    /\ ast = <<>>
    /\ rerrors = <<>>
    /\ interp = Interpreter_new
    /\ next_stmt = 1
    /\ outcome = [st |-> "running", val |-> <<>>]
    /\ ran = {"parser"}
    /\ lexer = Lexer_new(<<>>)
    /\ lexed = NothingLexed
    /\ CodecIdle

Next ==
    \/ ParseStatement
    \/ ParseError
    \/ ParseEnterBlock
    \/ BlockDeclaration
    \/ BlockSynchronize
    \/ ParseReturnOk
    \/ ParseReturnErr
    \/ ResolveOk
    \/ ResolveErr
    \/ ResolveErrIgnored
    \/ InterpretStatement
    \/ InterpretFail
    \/ InterpretReturn

Spec == Init /\ [][Next]_allvars

\* A pass of the loop of block that can be taken is taken: parse runs on one
\* thread that nothing preempts for ever.
FairSpec == Spec /\ WF_allvars(BlockDeclaration) /\ WF_allvars(BlockSynchronize)

(***************************************************************************)
(* The front end alone: parse, then resolve, on sources chosen for the     *)
(* shapes of their syntax trees.  The statements of these sources are      *)
(* never interpreted.                                                      *)
(***************************************************************************)
\* Infix operators, one or two of each precedence level; "?" stands for the
\* ternary operator with its middle operand, `? m :`.
ExprOperators == {"or", "and", "==", "<", "+", "*", "=", "?"}
OperatorTokens(o) == IF o = "?" THEN <<"?", "m", ":">> ELSE <<o>>
OperandNames == <<"a", "b", "c", "d", "e">>
MaxOperators == 3

\* a o1 b o2 c ... for the first n operators of ops.
RECURSIVE ChainTokens(_, _)
ChainTokens(ops, n) ==
    IF n = 0 THEN <<OperandNames[1]>>
    ELSE ChainTokens(ops, n - 1) \o OperatorTokens(ops[n]) \o <<OperandNames[n + 1]>>

OperatorChains == UNION { [1..n -> ExprOperators] : n \in 1..MaxOperators }

\* A chain in which every `=` has only `=` before it: each `=` then follows
\* a lone variable, and the chain forms an expression.
AssignsFirst(ops) == \A k \in DOMAIN ops : ops[k] = "=" => \A j \in 1..k : ops[j] = "="

ChainSource(ops) == ChainTokens(ops, Len(ops)) \o <<";">>

\* Operands with prefix operators before and calls and property accesses
\* after them, on both sides of one infix operator.
Prefixes == {<<>>, <<"!">>, <<"-">>, <<"-", "!">>}
Postfixes == {<<>>, <<".", "f">>, <<"(", ")">>, <<".", "f", "(", "c", ")">>, <<"(", ")", ".", "f">>}
AffixOperators == {"*", "or", "="}
AffixSource(pre1, post1, o, pre2, post2) ==
    pre1 \o <<"a">> \o post1 \o <<o>> \o pre2 \o <<"b">> \o post2 \o <<";">>

GroupSources ==
    { <<"(", "a", "+", "b", ")", "*", "c", ";">>, <<"a", "*", "(", "b", "=", "c", ")", ";">>,
      <<"(", "a", "?", "b", ":", "c", ")", "?", "d", ":", "e", ";">>,
      <<"-", "(", "a", "or", "b", ")", ".", "f", ";">> }

\* The sources that form one expression statement.
ValidExprSources ==
    {ChainSource(ops) : ops \in {o \in OperatorChains : AssignsFirst(o)}}
    \cup {AffixSource(pre1, post1, o, pre2, post2) :
            pre1 \in Prefixes, post1 \in Postfixes, o \in AffixOperators \ {"="},
            pre2 \in Prefixes, post2 \in Postfixes}
    \cup {AffixSource(<<>>, post1, "=", pre2, post2) :
            post1 \in {<<>>, <<".", "f">>, <<"(", ")", ".", "f">>},
            pre2 \in Prefixes, post2 \in Postfixes}
    \cup GroupSources

ExprSources ==
    {ChainSource(ops) : ops \in OperatorChains}
    \cup {AffixSource(pre1, post1, o, pre2, post2) :
            pre1 \in Prefixes, post1 \in Postfixes, o \in AffixOperators,
            pre2 \in Prefixes, post2 \in Postfixes}
    \cup GroupSources

\* Operands that are neither a variable nor a property access, by kind.
LeftShapes ==
    [literal |-> <<"1">>, string |-> <<"'a'">>, group |-> <<"(", "a", ")">>,
     call |-> <<"a", "(", "b", ")">>, binary |-> <<"a", "+", "b">>, unary |-> <<"-", "a">>,
     ternary |-> <<"a", "?", "b", ":", "c">>, super |-> <<"super", ".", "m">>,
     assignment |-> <<"(", "a", "=", "b", ")">>]

\* The operand, assigned to, and one more statement.
InvalidLeftSource(shape) == LeftShapes[shape] \o <<"=", "b", ";", "print", "c", ";">>
InvalidLeftSources == {InvalidLeftSource(shape) : shape \in DOMAIN LeftShapes}

\* The three parts of a for statement, present or omitted.
ForInits == [none |-> <<";">>, var |-> <<"var", "i", "=", "0", ";">>, expr |-> <<"i", "=", "0", ";">>]
ForConds == [none |-> <<>>, some |-> <<"i", "<", "1">>]
ForIncrs == [none |-> <<>>, some |-> <<"i", "=", "i", "+", "1">>]

\* for (init; cond; incr) print i;
ForSource(init, cond, incr) ==
    <<"for", "(">> \o ForInits[init] \o ForConds[cond] \o <<";">> \o ForIncrs[incr]
        \o <<")", "print", "i", ";">>

\* for (; i < 1) print i;  and  for (; i < 1 i = i + 1) print i;
ForSourceWithoutSemicolon(incr) ==
    <<"for", "(", ";">> \o ForConds.some \o ForIncrs[incr] \o <<")", "print", "i", ";">>

ForSources ==
    {ForSource(init, cond, incr) :
        init \in DOMAIN ForInits, cond \in DOMAIN ForConds, incr \in DOMAIN ForIncrs}
    \cup {ForSourceWithoutSemicolon(incr) : incr \in DOMAIN ForIncrs}

\* if (a) print 1;
IfSource == <<"if", "(", "a", ")", "print", "1", ";">>
\* if (a) print 1; else print 2;
IfElseSource == IfSource \o <<"else", "print", "2", ";">>
\* if (a) if (b) print 1; else print 2;
NestedIfElseSource ==
    <<"if", "(", "a", ")", "if", "(", "b", ")", "print", "1", ";", "else", "print", "2", ";">>
IfSources == {IfSource, IfElseSource, NestedIfElseSource}

\* p1, p2, ..., pn
Param(i) == "p" \o ToString(i)
ParamList(n) == [i \in 1..(2 * n - 1) |-> IF i % 2 = 1 THEN Param((i + 1) \div 2) ELSE ","]

ParamCounts == {255, 256, 257}
ParamHeads == [fun |-> <<"fun", "f", "(">>, method |-> <<"class", "A", "{", "m", "(">>]
ParamTails == [fun |-> <<>>, method |-> <<"}">>]
ParamBodies == [good |-> <<"print", "p1", ";">>, bad |-> <<"1", "=", "p1", ";">>]
ParamRests == [good |-> <<"print", "1", ";">>, bad |-> <<"print", ";">>]

\* fun f(p1, ..., pn) { body } rest   and   class A { m(p1, ..., pn) { body } } rest
ParamSource(head, n, body, rest) ==
    ParamHeads[head] \o ParamList(n) \o <<")", "{">> \o ParamBodies[body] \o <<"}">>
        \o ParamTails[head] \o ParamRests[rest]

ParamSources ==
    {ParamSource(head, n, body, rest) :
        head \in DOMAIN ParamHeads, n \in ParamCounts,
        body \in DOMAIN ParamBodies, rest \in DOMAIN ParamRests}

\* Declarations in blocks, functions and methods, one inside another.
NestedScopesSource ==
    <<"{", "var", "a", ";", "var", "b", ";", "{", "var", "c", ";", "}",
      "fun", "f", "(", "p", ",", "q", ")", "{", "var", "r", ";", "{", "var", "s", ";", "}",
      "print", "p", ";", "}",
      "class", "A", "{", "m", "(", "x", ")", "{", "var", "y", ";", "print", "x", ";", "}", "}",
      "print", "a", ";", "}">>
\* { var a; var a; }
RedefinedInBlockSource == <<"{", "var", "a", ";", "var", "a", ";", "}">>
\* fun g(a, a) { var a; fun a() {} }
RedefinedInFunctionSource ==
    <<"fun", "g", "(", "a", ",", "a", ")", "{", "var", "a", ";", "fun", "a", "(", ")", "{", "}", "}">>
\* { } fun h() { }
EmptyScopesSource == <<"{", "}", "fun", "h", "(", ")", "{", "}">>
\* if (c) { var a; } while (c) { var a; var b; }
BranchScopesSource ==
    <<"if", "(", "c", ")", "{", "var", "a", ";", "}",
      "while", "(", "c", ")", "{", "var", "a", ";", "var", "b", ";", "}">>
\* fun f(p) { print p; var q = p; { print q; q = 1; } fun g() { print p; print q; print z; } }
UsesAfterDeclarationSource ==
    <<"fun", "f", "(", "p", ")", "{", "print", "p", ";", "var", "q", "=", "p", ";",
      "{", "print", "q", ";", "q", "=", "1", ";", "}",
      "fun", "g", "(", ")", "{", "print", "p", ";", "print", "q", ";", "print", "z", ";", "}",
      "}">>
\* fun f() { print a; var a = 1; print a; }
UseBeforeDeclarationSource ==
    <<"fun", "f", "(", ")", "{", "print", "a", ";", "var", "a", "=", "1", ";",
      "print", "a", ";", "}">>
\* fun f() { fun g() { print a; } var a; }
ClosureBeforeDeclarationSource ==
    <<"fun", "f", "(", ")", "{", "fun", "g", "(", ")", "{", "print", "a", ";", "}",
      "var", "a", ";", "}">>
\* { a = 1; var a; }
AssignBeforeDeclarationSource == <<"{", "a", "=", "1", ";", "var", "a", ";", "}">>

\* class B < A { m(x) { super.m(this); } n() { { fun g() { super.m(this); } } } }
SuperInMethodSource ==
    <<"class", "B", "<", "A", "{", "m", "(", "x", ")", "{", "super", ".", "m", "(", "this",
      ")", ";", "}", "n", "(", ")", "{", "{", "fun", "g", "(", ")", "{", "super", ".", "m",
      "(", "this", ")", ";", "}", "}", "}", "}">>
\* class B < A { m() { fun g() { { super.m(this); } } } }
SuperInBlockOfFunctionSource ==
    <<"class", "B", "<", "A", "{", "m", "(", ")", "{", "fun", "g", "(", ")", "{", "{", "super",
      ".", "m", "(", "this", ")", ";", "}", "}", "}", "}">>

\* { class A {} fun f() { class B < A { init() { super.init(this); } } } }
SuperInLocalClassSource ==
    <<"{", "class", "A", "{", "}", "fun", "f", "(", ")", "{", "class", "B", "<", "A", "{",
      "init", "(", ")", "{", "super", ".", "init", "(", "this", ")", ";", "}", "}", "}", "}">>
\* class A {} class B < A { m() { class C < B { n() { super.m(this); } } super.m(this); } }
SuperInNestedSubClassSource ==
    <<"class", "A", "{", "}", "class", "B", "<", "A", "{", "m", "(", ")", "{", "class", "C",
      "<", "B", "{", "n", "(", ")", "{", "super", ".", "m", "(", "this", ")", ";", "}", "}",
      "super", ".", "m", "(", "this", ")", ";", "}", "}">>
\* class D { m() { super.m(this); } }
SuperWithoutSuperClassSource ==
    <<"class", "D", "{", "m", "(", ")", "{", "super", ".", "m", "(", "this", ")", ";", "}",
      "}">>
\* class A {} class B < A { m() { class D { n() { super.n(this); } } } }
SuperInPlainClassInsideSubClassSource ==
    <<"class", "A", "{", "}", "class", "B", "<", "A", "{", "m", "(", ")", "{", "class", "D",
      "{", "n", "(", ")", "{", "super", ".", "n", "(", "this", ")", ";", "}", "}", "}", "}">>
\* super.m(this); fun f() { super.m(this); }
SuperOutsideClassSource ==
    <<"super", ".", "m", "(", "this", ")", ";", "fun", "f", "(", ")", "{", "super", ".", "m",
      "(", "this", ")", ";", "}">>

SuperSources ==
    {SuperInMethodSource, SuperInBlockOfFunctionSource, SuperInLocalClassSource, SuperInNestedSubClassSource,
     SuperWithoutSuperClassSource, SuperInPlainClassInsideSubClassSource,
     SuperOutsideClassSource}

\* return; return 1; { return 2; } if (c) return; while (c) { return 3; }
ReturnOutsideSource ==
    <<"return", ";", "return", "1", ";", "{", "return", "2", ";", "}", "if", "(", "c", ")",
      "return", ";", "while", "(", "c", ")", "{", "return", "3", ";", "}">>
\* class A { init() { return; return 1; { return 2; } if (c) return 5; }
\*           m() { return 6; return; } }
ReturnInInitSource ==
    <<"class", "A", "{", "init", "(", ")", "{", "return", ";", "return", "1", ";", "{",
      "return", "2", ";", "}", "if", "(", "c", ")", "return", "5", ";", "}", "m", "(", ")",
      "{", "return", "6", ";", "return", ";", "}", "}">>
\* class A { init() { fun g() { return 3; return; }
\*                    class B { m() { return 4; } init(x) { return x; } } } }
\* fun init() { return 7; } return 8;
ReturnNestedInInitSource ==
    <<"class", "A", "{", "init", "(", ")", "{", "fun", "g", "(", ")", "{", "return", "3", ";",
      "return", ";", "}", "class", "B", "{", "m", "(", ")", "{", "return", "4", ";", "}",
      "init", "(", "x", ")", "{", "return", "x", ";", "}", "}", "}", "}", "fun", "init", "(",
      ")", "{", "return", "7", ";", "}", "return", "8", ";">>

\* class A { init() { return; fun g() { return 1; } { return; } } m() { return 2; } }
ReturnAllowedSource ==
    <<"class", "A", "{", "init", "(", ")", "{", "return", ";", "fun", "g", "(", ")", "{",
      "return", "1", ";", "}", "{", "return", ";", "}", "}", "m", "(", ")", "{", "return", "2",
      ";", "}", "}">>

ReturnSources ==
    {ReturnOutsideSource, ReturnInInitSource, ReturnNestedInInitSource, ReturnAllowedSource}

\* fun f() { print this; }
ThisInFunctionSource ==
    <<"fun", "f", "(", ")", "{", "print", "this", ";", "}">>
\* print this; { this = 1; } if (this) print 1;
ThisAtTopLevelSource ==
    <<"print", "this", ";", "{", "this", "=", "1", ";", "}", "if", "(", "this", ")", "print",
      "1", ";">>
\* class A { m() { print this; { fun g() { print this; } } } }
ThisInMethodSource ==
    <<"class", "A", "{", "m", "(", ")", "{", "print", "this", ";", "{", "fun", "g", "(", ")",
      "{", "print", "this", ";", "}", "}", "}", "}">>
\* fun f() { class A { m() { return this; } } return this; }
ThisAroundClassSource ==
    <<"fun", "f", "(", ")", "{", "class", "A", "{", "m", "(", ")", "{", "return", "this", ";",
      "}", "}", "return", "this", ";", "}">>

ThisSources ==
    {ThisInFunctionSource, ThisAtTopLevelSource, ThisInMethodSource, ThisAroundClassSource}

\* return this;
ReturnThisSource ==
    <<"return", "this", ";">>
\* { return super.m; }
ReturnSuperSource ==
    <<"{", "return", "super", ".", "m", ";", "}">>
\* print this; return 1; print this; class A { m() { super.m; print 1; } } print this;
ErrorsInARowSource ==
    <<"print", "this", ";", "return", "1", ";", "print", "this", ";", "class", "A", "{", "m",
      "(", ")", "{", "super", ".", "m", ";", "print", "1", ";", "}", "}", "print", "this", ";">>

DiagnosedSources == {ReturnThisSource, ReturnSuperSource, ErrorsInARowSource}

ScopeSources ==
    {NestedScopesSource, RedefinedInBlockSource, RedefinedInFunctionSource, EmptyScopesSource,
     BranchScopesSource, UsesAfterDeclarationSource, UseBeforeDeclarationSource,
     ClosureBeforeDeclarationSource, AssignBeforeDeclarationSource}

\* Class declarations whose superclass is a local variable.
\* { class A { } class B < A { } }
SuperClassInBlockSource ==
    <<"{", "class", "A", "{", "}", "class", "B", "<", "A", "{", "}", "}">>
\* fun f ( A ) { class B < A { } }
SuperClassParameterSource ==
    <<"fun", "f", "(", "A", ")", "{", "class", "B", "<", "A", "{", "}", "}">>
\* { class A { } { var x ; class B < A { } } }
SuperClassInOuterBlockSource ==
    <<"{", "class", "A", "{", "}", "{", "var", "x", ";", "class", "B", "<", "A", "{", "}", "}",
      "}">>
SuperClassSources ==
    {SuperClassInBlockSource, SuperClassParameterSource, SuperClassInOuterBlockSource}

FrontSources ==
    ExprSources \cup InvalidLeftSources \cup ForSources \cup IfSources \cup ParamSources
        \cup ScopeSources \cup SuperSources \cup ReturnSources \cup ThisSources
        \cup DiagnosedSources \cup SuperClassSources

FrontInit ==
    /\ src \in FrontSources
    /\ mode \in {"run", "embed"}
    /\ pc = "parse"
    /\ parser = Parser_new
    /\ statements = <<>>
    /\ ast = <<>>
    /\ rerrors = <<>>
    /\ interp = Interpreter_new
    /\ next_stmt = 1
    /\ outcome = [st |-> "running", val |-> <<>>]
    /\ ran = {"parser"}
    /\ lexer = Lexer_new(<<>>)
    /\ lexed = NothingLexed
    /\ CodecIdle

FrontNext ==
    \/ ParseStatement
    \/ ParseError
    \/ ParseReturnOk
    \/ ParseReturnErr
    \/ ResolveOk
    \/ ResolveErr
    \/ ResolveErrIgnored

FrontSpec == FrontInit /\ [][FrontNext]_allvars

(***************************************************************************)
(* The lexer alone: next_token is called on a text until it has returned   *)
(* Eof MaxEofs times, or has panicked.                                     *)
(***************************************************************************)
LexAlphabet == {"/", "*", "\"", "\\", "n", "1", ".", " ", "\n", "=", "a", "@"}
MaxText == 3
ShortTexts == UNION { [1..n -> LexAlphabet] : n \in 0..MaxText }

\* An opened block comment and what follows.
CommentAlphabet == {"/", "*", "a"}
MaxCommentBody == 6
CommentTexts ==
    UNION { {<<"/", "*">> \o body : body \in [1..n -> CommentAlphabet]} : n \in 0..MaxCommentBody }

LongTexts ==
    { <<"1", "2", ".", "5", "0", " ", "7">>,
      <<"1", ".", "a">>,
      <<"0", "1", " ", "1", ".", "0">>,
      <<"\"", "a", "\\", "n", "b", "\"", " ", "\"", "\"">>,
      <<"\"", "a", "\\", "\"", "b", "\"", "1">>,
      <<"\"", "a", "\n", "1">>,
      <<"1", "\"", "\\", "a", "\"">>,
      <<"o", "r", " ", "o", "r", "b", " ", "_", "a", "1">>,
      <<"/", "/", " ", "a", "\n", "1", "/", "2">>,
      <<"1", " ", "/", "*", " ", "a", " ", "*", "/", " ", "2">>,
      <<"/", "*", "a", "/", "*", "b", "*", "/", "c", "*", "/", "d">>,
      <<"a", "!", "=", "=", "<", "=", "!", ">">> }

LexTexts == ShortTexts \cup CommentTexts \cup LongTexts

MaxEofs == 2

\* One call of next_token that returns a token.
LexToken ==
    /\ pc = "lex"
    /\ ~lexed.panicked
    /\ Len(lexed.tokens) < Len(lexer.src) + MaxEofs
    /\ With(Lexer_next_token(lexer), LAMBDA r :
       /\ r.st = "ok"
       /\ lexer' = r.l
       /\ lexed' = [lexed EXCEPT !.tokens = Append(@, r.val)])
    /\ UNCHANGED <<vars, codecvars>>

\* One call of next_token that panics: the process is gone.
LexTodo ==
    /\ pc = "lex"
    /\ ~lexed.panicked
    /\ Len(lexed.tokens) < Len(lexer.src) + MaxEofs
    /\ With(Lexer_next_token(lexer), LAMBDA r :
       /\ r.st = "panic"
       /\ lexer' = r.l
       /\ lexed' = [lexed EXCEPT !.panicked = TRUE])
    /\ UNCHANGED <<vars, codecvars>>

LexInit ==
    /\ \E text \in LexTexts : lexer = Lexer_new(text)
    /\ lexed = NothingLexed
    /\ CodecIdle
    /\ src = <<>>
    /\ mode = "run"
    /\ pc = "lex"
    /\ parser = Parser_new
    /\ statements = <<>>
    /\ ast = <<>>
    /\ rerrors = <<>>
    /\ interp = Interpreter_new
    /\ next_stmt = 1
    /\ outcome = [st |-> "running", val |-> <<>>]
    /\ ran = {}

LexNext == LexToken \/ LexTodo

LexSpec == LexInit /\ [][LexNext]_allvars


(***************************************************************************)
(* The encoder alone: a slice of Operations is encoded into a new          *)
(* OpWriter, and the writer is flushed.                                    *)
(***************************************************************************)
MaxOperations == 2
F64Values == {0, 1, 2, 3, 0 - 1, 0 - 2, 256}
StringSymbols == {0, 1, 258, 16909060}
OperationsOf(variant) ==
    CASE variant.fields = <<>> -> {[ident |-> variant.ident, args |-> <<>>]}
      [] variant.fields = <<"f64">> ->
            {[ident |-> variant.ident, args |-> <<n>>] : n \in F64Values}
      [] variant.fields = <<"StringSymbol">> ->
            {[ident |-> variant.ident, args |-> <<s>>] : s \in StringSymbols}
      [] variant.fields = <<"bool">> ->
            {[ident |-> variant.ident, args |-> <<b>>] : b \in BOOLEAN}
Operations == UNION {OperationsOf(Operation[k]) : k \in DOMAIN Operation}
Slices == UNION {[1..n -> Operations] : n \in 0..MaxOperations}

\* One pass of the loop of Encode for [Operation]: op.encode(writer).
EncodeOperation ==
    /\ pc = "encode"
    /\ encoded < Len(operations)
    /\ writer' = Operation_encode(writer, operations[encoded + 1])
    /\ encoded' = encoded + 1
    /\ UNCHANGED <<vars, lexvars, operations, flushed>>

\* writer.flush(), after the slice was encoded.
Flush ==
    /\ pc = "encode"
    /\ encoded = Len(operations)
    /\ flushed = None
    /\ With(OpWriter_flush(writer), LAMBDA r :
       /\ writer' = r.writer
       /\ flushed' = Some(r.val))
    /\ UNCHANGED <<vars, lexvars, operations, encoded>>

CodecInit ==
    /\ operations \in Slices
    /\ writer = OpWriter_new
    /\ encoded = 0
    /\ flushed = None
    /\ lexer = Lexer_new(<<>>)
    /\ lexed = NothingLexed
    /\ src = <<>>
    /\ mode = "run"
    /\ pc = "encode"
    /\ parser = Parser_new
    /\ statements = <<>>
    /\ ast = <<>>
    /\ rerrors = <<>>
    /\ interp = Interpreter_new
    /\ next_stmt = 1
    /\ outcome = [st |-> "running", val |-> <<>>]
    /\ ran = {}

CodecNext == EncodeOperation \/ Flush

CodecSpec == CodecInit /\ [][CodecNext]_allvars

(***************************************************************************)
(* Properties                                                              *)
(***************************************************************************)
Done == pc = "done"
Events == {interp.log[k] : k \in DOMAIN interp.log}
EventsOf(kind) == {ev \in Events : ev.ev = kind}

\* The evaluation bounds of the model are never what ends a run under Spec.
WithinModel == outcome.st \notin {"fuel", "unmodelled"}

\* The truthiness rule of the language description: only nil and false are
\* false.
FalsyOperands == {"nil", "false"}

\* What print shows for an operand token.
Shown(v) == IF IsStringToken(v) THEN StringOf(v) ELSE v

\* C1: on every finite source Parser::parse terminates and returns Ok or the
\* non-empty error list, wherever the end of input falls, an unclosed `{`
\* block included: a parser that is inside the loop of block eventually
\* leaves parse.
C1_ParseTerminates == (pc = "block") ~> (pc \notin ParsePositions)

\* C2: in run(src) the resolver runs only after parse returned no error and
\* the interpreter only after the resolver returned no error; a program with
\* a parse or resolver error executes none of its statements: nothing is
\* printed and no global is defined.
C2_LaterStagesNeedCleanEarlierStages ==
    mode = "run" =>
        /\ "resolver" \in ran => parser.errors = <<>> /\ pc \notin ParsePositions
        /\ "interpreter" \in ran => parser.errors = <<>> /\ rerrors = <<>>
        /\ (parser.errors # <<>> \/ rerrors # <<>>) =>
                /\ interp.out = <<>>
                /\ interp.global_env = Interpreter_new.global_env
                /\ interp = Interpreter_new
                /\ next_stmt = 1
        /\ Done /\ outcome.st \in {"parse_errors", "resolver_errors"} => outcome.val # <<>>

\* A run() that stopped on a resolver error although a print statement and a
\* global declaration precede the erroneous block.
C2_ResolverErrorAfterStatements ==
    /\ mode = "run"
    /\ Done
    /\ rerrors # <<>>
    /\ Len(ast) = 3
    /\ ast[1].k = "Print"
    /\ ast[2].k = "Var"
    /\ interp.out = <<>>

\* C3: as_bool is false exactly for nil and false and true for everything
\* else, the number 0 and the empty string included, and the ternary, `!`,
\* `if` and `while` decide with it.
C3_OnlyNilAndFalseAreFalsy ==
    Done =>
        \A v \in Operands :
            /\ src = TernaryProg(v) =>
                    interp.out = <<IF v \in FalsyOperands THEN "B" ELSE "A">>
            /\ src = NotProg(v) =>
                    interp.out = <<IF v \in FalsyOperands THEN "true" ELSE "false">>
            /\ src = IfProg(v) =>
                    interp.out = IF v \in FalsyOperands THEN <<"B">> ELSE <<"A", "B">>
            /\ src = WhileProg(v) =>
                    interp.out = IF v \in FalsyOperands THEN <<"B">> ELSE <<"A", "B">>

\* C4: `==` on two reads of the same function, class or instance is true and
\* on distinct objects false; `!=` is its negation.
C4_SameReferenceIsEqual ==
    Done =>
        \A op \in EqualityOperators :
            /\ src \in {SameFunctionProg(op), SameClassProg(op), SameInstanceProg(op)} =>
                    interp.out = <<IF op = "==" THEN "true" ELSE "false">>
            /\ src \in {DistinctFunctionProg(op), DistinctInstanceProg(op)} =>
                    interp.out = <<IF op = "==" THEN "false" ELSE "true">>

\* C5: for a program the resolver accepted interpret never returns
\* RuntimeError::Return; the call that ran a body consumes every Return the
\* body raised, and its value is the returned value, nil for a bare return
\* or a body that ends without return, from whatever depth of blocks and
\* loops.
C5_ReturnStopsAtTheCall ==
    /\ rerrors = <<>> /\ Done /\ outcome.st = "err" => outcome.val.e # "Return"
    /\ \A ev \in EventsOf("fn_call") :
          ev.callee.t = "Function" =>
            /\ ev.raw.st = "err" /\ ev.raw.val.e = "Return" =>
                    ev.result = [st |-> "ok", val |-> ev.raw.val.value]
            /\ ev.raw.st = "ok" => ev.result = [st |-> "ok", val |-> Value_Nil]
            /\ ev.result.st = "err" => ev.result.val.e # "Return"
    /\ Done =>
          /\ src = ReturnNestedProg => interp.out = <<"7", "1">>
          /\ src = ReturnLoopProg => interp.out = <<"1">>
          /\ src = ReturnBareProg => interp.out = <<"1", "nil">>
          /\ src = ReturnNoneProg => interp.out = <<"1", "nil">>
          /\ src = ReturnInnerProg => interp.out = <<"2", "3">>
          /\ src = ReturnIfProg => interp.out = <<"1", "2">>
          /\ src = ClassInitReturnProg => interp.out = <<"1", "<D instance>">>

\* A call whose body raised Return with a value from a block inside a loop, in
\* a program the resolver accepted.
C5_ReturnFromLoopConsumed ==
    /\ src = ReturnLoopProg
    /\ rerrors = <<>>
    /\ \E ev \in EventsOf("fn_call") :
          /\ ev.callee.t = "Function"
          /\ ev.raw.st = "err"
          /\ ev.raw.val.e = "Return"
          /\ ev.raw.val.value = Value_Number(1)
          /\ ev.result.st = "ok"


\* C6: when execute_block returns, with Ok, with a propagating Return or with
\* any other runtime error, env is the frame it was before the call; so after
\* every block statement and every call the current frame is the caller's.
C6_FrameRestoredOnEveryExit ==
    /\ \A ev \in EventsOf("execute_block") :
          ev.st \in {"ok", "err"} => ev.after = ev.prev
    /\ \A ev \in EventsOf("fn_call") :
          ev.result.st \in {"ok", "err"} => ev.env.after = ev.env.before
    /\ pc \in {"interpret", "done"} /\ outcome.st \in {"running", "ok", "err"} =>
          interp.env = 0
    /\ Done /\ src = BlockErrorProg =>
          /\ interp.out = <<"2">>
          /\ outcome.st = "err"
          /\ outcome.val.e = "TypeError"

\* A run in which execute_block, entered from a block's frame, was left by a
\* Return, by a TypeError and by the end of its statements.
C6_LeftByReturnErrorAndEnd ==
    /\ src = BlockErrorProg
    /\ Done
    /\ \E ev \in EventsOf("execute_block") :
          ev.e = "Return" /\ ev.prev # 0 /\ ev.environment # ev.prev
    /\ \E ev \in EventsOf("execute_block") :
          ev.e = "TypeError" /\ ev.prev # 0 /\ ev.environment # ev.prev
    /\ \E ev \in EventsOf("execute_block") :
          ev.st = "ok" /\ ev.prev # 0 /\ ev.environment # ev.prev

\* The function value a global holds.
GlobalFunction(name) == interp.functions[interp.global_env[name].v]

\* C7: a function value reads and writes its free local variables in the
\* frame that was current when its declaration executed: a write through a
\* closure persists across its later calls and is seen by the other closures
\* of the same activation, and closures of two activations share nothing.
C7_ClosuresShareTheDeclaringFrame ==
    /\ \A ev \in EventsOf("function") : interp.functions[ev.function].closure = ev.env
    /\ Done =>
          /\ src = ClosureSharedProg =>
                /\ interp.out = <<"1", "2", "2">>
                /\ GlobalFunction("T").closure = GlobalFunction("P").closure
          /\ src = ClosureTwoProg =>
                /\ interp.out = <<"1", "2", "1">>
                /\ GlobalFunction("a").closure # GlobalFunction("b").closure
          /\ src = ClosureBlockProg => interp.out = <<"6", "7">>

\* Two closures of one activation after that activation returned: tick wrote
\* twice and peek read the second write.
C7_SiblingSeesTheWrite ==
    /\ src = ClosureSharedProg
    /\ Done
    /\ interp.out = <<"1", "2", "2">>
    /\ GlobalFunction("T").closure # 0
    /\ interp.env = 0

\* The classes from c up its superclasses.
RECURSIVE InheritanceChain(_, _)
InheritanceChain(classes, c) ==
    IF c = 0 THEN <<>> ELSE <<c>> \o InheritanceChain(classes, classes[c].super_class)

\* The first class of the chain from c that declares the method, if any.
NearestDeclaring(classes, c, name) ==
    With(InheritanceChain(classes, c), LAMBDA chain :
    With({k \in DOMAIN chain : name \in DOMAIN classes[chain[k]].methods}, LAMBDA hits :
    IF hits = {} THEN None
    ELSE Some(chain[CHOOSE k \in hits : \A j \in hits : k <= j])))

ParameterCount(classes, c) ==
    With(NearestDeclaring(classes, c, "init"), LAMBDA owner :
    IF is_some(owner) THEN Len(classes[unwrap(owner)].methods["init"].declaration.params)
    ELSE 0)

InitRuns(instance) ==
    {k \in DOMAIN interp.log :
        interp.log[k].ev = "init" /\ interp.log[k].instance = instance}


\* C8: a class call with n arguments succeeds only if n is the parameter
\* count of the init get_method finds (own or inherited), 0 without one; it
\* runs that init exactly once with `this` bound to the new instance; its
\* result is that instance, never init's return value; a non-nil value
\* returned from init makes it fail with ReturnInConstructor.
C8_ClassCallRunsInitOnce ==
    /\ \A ev \in EventsOf("arity") \cup EventsOf("fn_call") :
          ev.callee.t = "Class" =>
            /\ ev.expected = ParameterCount(interp.classes, ev.callee.v)
            /\ (ev.ev = "fn_call") = (ev.got = ev.expected)
    /\ \A ev \in EventsOf("fn_call") :
          ev.callee.t = "Class" /\ ev.result.st \in {"ok", "err"} =>
            LET created == ev.instances + 1
                owner == NearestDeclaring(interp.classes, ev.callee.v, "init")
            IN  /\ ev.result.st = "ok" => ev.result.val = Value_Instance(created)
                /\ Cardinality(InitRuns(created)) = IF is_some(owner) THEN 1 ELSE 0
                /\ \A k \in InitRuns(created) :
                      LET run == interp.log[k] IN
                      /\ run.class = ev.callee.v
                      /\ run.this = Value_Instance(created)
                      /\ run.declaration =
                            interp.classes[unwrap(owner)].methods["init"].declaration
                      /\ Len(run.arguments) = ev.got
                      /\ run.result.st = "ok" => ev.result.st = "ok"
                      /\ run.result.st = "err" =>
                            IF run.result.val.e # "Return" THEN ev.result = run.result
                            ELSE IF run.result.val.value = Value_Nil THEN ev.result.st = "ok"
                            ELSE ev.result = [st |-> "err",
                                              val |-> ReturnInConstructor(run.result.val.span)]
    /\ Done =>
          /\ src = ClassInitProg => interp.out = <<"7", "<A instance>", "<A instance>">>
          /\ src = ClassInheritProg("5") => interp.out = <<"5", "<B instance>">>
          /\ src = ClassInheritNoArgProg =>
                /\ interp.out = <<>>
                /\ outcome.st = "err"
                /\ outcome.val.e = "ArgumentsNotMatch"
                /\ outcome.val.expected = 1
                /\ outcome.val.got = 0
          /\ src = ClassNoInitProg => interp.out = <<"<C instance>">>
          /\ src = ClassNoInitArgProg =>
                /\ interp.out = <<>>
                /\ outcome.st = "err"
                /\ outcome.val.e = "ArgumentsNotMatch"
                /\ outcome.val.expected = 0
                /\ outcome.val.got = 1
          /\ src = ClassInitReturnProg => interp.out = <<"1", "<D instance>">>
          /\ src = ClassInitReturnValueProg /\ mode = "embed" =>
                /\ interp.out = <<>>
                /\ outcome.st = "err"
                /\ outcome.val.e = "ReturnInConstructor"

\* A call of a class without an init of its own ran the inherited init once
\* on the new instance and returned that instance.
C8_InheritedInitRan ==
    /\ src = ClassInheritProg("5")
    /\ Done
    /\ \E ev \in EventsOf("fn_call") :
          /\ ev.callee.t = "Class"
          /\ "init" \notin DOMAIN interp.classes[ev.callee.v].methods
          /\ ev.got = 1
          /\ ev.result = [st |-> "ok", val |-> Value_Instance(ev.instances + 1)]
          /\ Cardinality(InitRuns(ev.instances + 1)) = 1


\* C9: reading property f of an instance returns the instance's own field f
\* whenever one exists, even if a method f exists; otherwise the method f of
\* the nearest class of the inheritance chain, bound to that instance;
\* otherwise it fails with UndefinedField. Writing a property changes only
\* that instance's own field map, never its class or another instance.
C9_FieldsThenNearestMethod ==
    /\ \A ev \in EventsOf("get") :
          LET this == ev.before[ev.instance]
              owner == NearestDeclaring(interp.classes, this.class, ev.field)
          IN  IF ev.field \in DOMAIN this.fields
              THEN ev.result = [st |-> "ok", val |-> this.fields[ev.field]]
              ELSE IF is_some(owner)
              THEN LET method == interp.classes[unwrap(owner)].methods[ev.field] IN
                   /\ ev.result.st = "ok"
                   /\ ev.result.val.t = "Function"
                   /\ LET bound == interp.functions[ev.result.val.v] IN
                      /\ bound.declaration = method.declaration
                      /\ ev.frames[bound.closure].values
                            = <<Value_Instance(ev.instance)>>
                      /\ ev.frames[bound.closure].enclosing = method.closure
              ELSE ev.result = [st |-> "err", val |-> UndefinedField(ev.field)]
    /\ \A ev \in EventsOf("set") :
          /\ ev.after.classes = ev.before.classes
          /\ DOMAIN ev.after.instances = DOMAIN ev.before.instances
          /\ \A k \in DOMAIN ev.before.instances :
                k # ev.instance => ev.after.instances[k] = ev.before.instances[k]
          /\ ev.after.instances[ev.instance].class
                = ev.before.instances[ev.instance].class
          /\ LET old == ev.before.instances[ev.instance].fields
                 new == ev.after.instances[ev.instance].fields
             IN  /\ DOMAIN new = DOMAIN old \cup {ev.field}
                 /\ new[ev.field] = ev.value
                 /\ \A f \in DOMAIN old : f # ev.field => new[f] = old[f]
    /\ Done =>
          /\ src = PropertyLookupProg =>
                /\ interp.out = <<"B", "a", "own">>
                /\ outcome = [st |-> "err", val |-> UndefinedField("h")]
          /\ src = PropertyBoundProg => interp.out = <<"a", "b">>
          /\ src = PropertySetProg =>
                /\ interp.out = <<"1">>
                /\ outcome = [st |-> "err", val |-> UndefinedField("x")]

\* One run read an own field that shadows a method, a method of the own
\* class, a method of the superclass and a missing property, and wrote a field.
C9_AllFourLookupsHappened ==
    /\ src = PropertyLookupProg
    /\ Done
    /\ \E k1, k2, k3, k4 \in DOMAIN interp.log :
          LET own == interp.log[k1]
              near == interp.log[k2]
              far == interp.log[k3]
              none == interp.log[k4]
          IN  /\ \A k \in {k1, k2, k3, k4} : interp.log[k].ev = "get"
              /\ own.field \in DOMAIN own.before[own.instance].fields
              /\ is_some(Class_get_method(interp.classes,
                                          own.before[own.instance].class, own.field))
              /\ near.result.st = "ok"
              /\ near.result.val.t = "Function"
              /\ NearestDeclaring(interp.classes, near.before[near.instance].class,
                                  near.field) = Some(near.before[near.instance].class)
              /\ far.result.st = "ok"
              /\ far.result.val.t = "Function"
              /\ NearestDeclaring(interp.classes, far.before[far.instance].class,
                                  far.field) # Some(far.before[far.instance].class)
              /\ none.result.st = "err"
    /\ \E k \in DOMAIN interp.log : interp.log[k].ev = "set"

\* C10: `a and b` evaluates a exactly once; when a is falsy (nil or false) the
\* result is a's value and b is never evaluated, otherwise the result is b's
\* value; `a or b` is the dual. The result is the operand itself, not a
\* boolean. (m counts the evaluations of a, n those of b.)
C10_ShortCircuitOnNilAndFalse ==
    Done =>
      \A v \in Operands :
        /\ src = LogicProg(v, "and") =>
              interp.out = IF v \in FalsyOperands THEN <<Shown(v), "1", "0">>
                           ELSE <<"b", "1", "1">>
        /\ src = LogicProg(v, "or") =>
              interp.out = IF v \in FalsyOperands THEN <<"b", "1", "1">>
                           ELSE <<Shown(v), "1", "0">>

\* The number 0 on the left of `and`: b was skipped and 0 is the result.
C10_ZeroStopsAnd ==
    /\ src = LogicProg("0", "and")
    /\ Done
    /\ interp.out = <<"0", "1", "0">>

\* The token that spells a binary or unary operator of the tree.
OperatorSpelling(operator) ==
    CASE operator = "NotEqual" -> "!="
      [] operator = "Equal" -> "=="
      [] operator = "Greater" -> ">"
      [] operator = "GreaterEqual" -> ">="
      [] operator = "Less" -> "<"
      [] operator = "LessEqual" -> "<="
      [] operator \in {"Minus", "Negative"} -> "-"
      [] operator = "Plus" -> "+"
      [] operator = "Divide" -> "/"
      [] operator = "Multiply" -> "*"
      [] operator = "And" -> "and"
      [] operator = "Or" -> "or"
      [] operator = "Not" -> "!"

\* What print shows for a literal of the tree is also how the source spells it.
LiteralSpelling(value) ==
    CASE value.t = "Number" -> NumberTokens[value.v + 1]
      [] value.t = "Bool" -> IF value.v THEN "true" ELSE "false"
      [] value.t = "Nil" -> "nil"
      [] value.t = "String" ->
            StringTokens[CHOOSE i \in 1..Len(StringTokens) : StringTokens[i][2] = value.v][1]

\* The tokens of an expression tree, left to right.
RECURSIVE TokensOf(_)
RECURSIVE TokensOfAll(_, _)
TokensOf(e) ==
    CASE e.k = "Binary" ->
            TokensOf(e.left) \o <<OperatorSpelling(e.operator)>> \o TokensOf(e.right)
      [] e.k = "Unary" -> <<OperatorSpelling(e.operator)>> \o TokensOf(e.operand)
      [] e.k = "Group" -> <<"(">> \o TokensOf(e.expr) \o <<")">>
      [] e.k = "Literal" -> <<LiteralSpelling(e.value)>>
      [] e.k = "Ternary" ->
            TokensOf(e.condition) \o <<"?">> \o TokensOf(e.truthy) \o <<":">>
            \o TokensOf(e.falsy)
      [] e.k = "Assign" -> <<e.var.ident.name, "=">> \o TokensOf(e.value)
      [] e.k = "Var" -> <<e.var.ident.name>>
      [] e.k = "FnCall" -> TokensOf(e.callee) \o <<"(">> \o TokensOfAll(e.arguments, 1) \o <<")">>
      [] e.k = "Get" -> TokensOf(e.object) \o <<".", e.field.name>>
      [] e.k = "Set" -> TokensOf(e.target) \o <<"=">> \o TokensOf(e.value)
      [] e.k = "Super" -> <<"super", ".", e.method.name>>
TokensOfAll(es, k) ==
    IF k > Len(es) THEN <<>>
    ELSE TokensOf(es[k]) \o (IF k < Len(es) THEN <<",">> ELSE <<>>) \o TokensOfAll(es, k + 1)

\* The precedence level of the operator at the root of a tree, as the language
\* description numbers the levels; a tree without an operator at its root
\* binds tighter than any operator.
BindingLevel(e) ==
    CASE e.k \in {"Assign", "Set"} -> 2
      [] e.k = "Ternary" -> 4
      [] e.k = "Binary" /\ e.operator = "Or" -> 9
      [] e.k = "Binary" /\ e.operator = "And" -> 10
      [] e.k = "Binary" /\ e.operator \in {"Equal", "NotEqual", "Greater", "GreaterEqual",
                                            "Less", "LessEqual"} -> 11
      [] e.k = "Binary" /\ e.operator \in {"Plus", "Minus"} -> 12
      [] e.k = "Binary" /\ e.operator \in {"Multiply", "Divide"} -> 13
      [] e.k = "Unary" -> 14
      [] e.k \in {"FnCall", "Get"} -> 15
      [] OTHER -> 16

\* Every operand binds at least as tightly as its place in the tree demands:
\* to the left of a left-grouping operator an operand of the same level is
\* allowed, to its right only a tighter one, and the other way round for `=`
\* and `? :`.  Parentheses and argument lists start afresh.
RECURSIVE TightlyBound(_)
TightlyBound(e) ==
    CASE e.k = "Binary" ->
            /\ BindingLevel(e.left) >= BindingLevel(e)
            /\ BindingLevel(e.right) > BindingLevel(e)
            /\ TightlyBound(e.left) /\ TightlyBound(e.right)
      [] e.k = "Unary" -> BindingLevel(e.operand) >= 14 /\ TightlyBound(e.operand)
      [] e.k = "Group" -> TightlyBound(e.expr)
      [] e.k = "Ternary" ->
            /\ BindingLevel(e.condition) > 4
            /\ BindingLevel(e.falsy) >= 4
            /\ TightlyBound(e.condition) /\ TightlyBound(e.truthy) /\ TightlyBound(e.falsy)
      [] e.k = "Assign" -> TightlyBound(e.value)
      [] e.k = "FnCall" ->
            /\ BindingLevel(e.callee) >= 15
            /\ TightlyBound(e.callee)
            /\ \A k \in DOMAIN e.arguments : TightlyBound(e.arguments[k])
      [] e.k = "Get" -> BindingLevel(e.object) >= 15 /\ TightlyBound(e.object)
      [] e.k = "Set" ->
            /\ e.target.k = "Get"
            /\ BindingLevel(e.target.object) >= 15
            /\ TightlyBound(e.target.object) /\ TightlyBound(e.value)
      [] OTHER -> TRUE

\* parse has consumed the whole of a one-statement source.
ParsedWhole == pc = "parse" /\ parser.pos = Len(src) + 1

\* C11: every token sequence that forms an expression parses, without error,
\* into the one tree that spells the sequence from left to right and in which
\* a higher level binds tighter, binary operators of one level group to the
\* left, and `=` and `? :` group to the right.
C11_TreeFollowsPrecedence ==
    (src \in ValidExprSources /\ ParsedWhole) =>
        /\ parser.errors = <<>>
        /\ Len(statements) = 1
        /\ statements[1].k = "Expression"
        /\ TokensOf(statements[1].expr) \o <<";">> = src
        /\ TightlyBound(statements[1].expr)

\* a = b = c or d was parsed as a = (b = (c or d)).
C11_AssignmentsNestToTheRight ==
    /\ src = <<"a", "=", "b", "=", "c", "or", "d", ";">>
    /\ ParsedWhole
    /\ Len(statements) = 1
    /\ statements[1].expr.k = "Assign"
    /\ statements[1].expr.value.k = "Assign"
    /\ statements[1].expr.value.value.k = "Binary"

\* e is the variable called name.
IsVarNamed(e, name) == e.k = "Var" /\ e.var.ident.name = name

\* C12: `=` after a variable builds Assign and after a property access builds
\* Set around that same access; after any other operand the statement fails
\* with InvalidLeftValue carrying the span of the operand, from its first token
\* to the end of its last one, and neither node is built.
C12_AssignTargetsAreVarOrGet ==
    /\ (src = AffixSource(<<>>, <<>>, "=", <<>>, <<>>) /\ ParsedWhole) =>
          /\ parser.errors = <<>>
          /\ Len(statements) = 1
          /\ statements[1].k = "Expression"
          /\ statements[1].expr.k = "Assign"
          /\ statements[1].expr.var.ident.name = "a"
          /\ IsVarNamed(statements[1].expr.value, "b")
    /\ (src = AffixSource(<<>>, <<".", "f">>, "=", <<>>, <<>>) /\ ParsedWhole) =>
          /\ parser.errors = <<>>
          /\ Len(statements) = 1
          /\ statements[1].k = "Expression"
          /\ statements[1].expr.k = "Set"
          /\ statements[1].expr.target.k = "Get"
          /\ IsVarNamed(statements[1].expr.target.object, "a")
          /\ statements[1].expr.target.field.name = "f"
          /\ IsVarNamed(statements[1].expr.value, "b")
    /\ (src = AffixSource(<<>>, <<"(", ")", ".", "f">>, "=", <<>>, <<>>) /\ ParsedWhole) =>
          /\ parser.errors = <<>>
          /\ Len(statements) = 1
          /\ statements[1].expr.k = "Set"
          /\ statements[1].expr.target.k = "Get"
          /\ statements[1].expr.target.object.k = "FnCall"
          /\ IsVarNamed(statements[1].expr.target.object.callee, "a")
          /\ statements[1].expr.target.field.name = "f"
    /\ \A shape \in DOMAIN LeftShapes :
          (src = InvalidLeftSource(shape) /\ pc = "parse" /\ parser.pos > 1) =>
              /\ parser.errors =
                   <<[e |-> "InvalidLeftValue", span |-> Span(1, Len(LeftShapes[shape]) + 1)]>>
              /\ Len(statements) <= 1
              /\ \A k \in DOMAIN statements :
                    /\ statements[k].k = "Print"
                    /\ IsVarNamed(statements[k].expr, "c")

\* a ? b : c = b; failed at the ternary, and the statement after it was parsed;
\* the span that was reported ends where the last token of the ternary starts.
C12_TernaryIsNoTarget ==
    /\ src = InvalidLeftSource("ternary")
    /\ ParsedWhole
    /\ parser.errors = <<[e |-> "InvalidLeftValue", span |-> Span(1, 5)]>>
    /\ Len(statements) = 1

\* The desugared form of a for statement whose parts are present as named.
ForDesugared(s, init, cond, incr) ==
    /\ s.k = "Block"
    /\ Len(s.statements) = IF init = "none" THEN 1 ELSE 2
    /\ init = "var" => s.statements[1].k = "Var"
    /\ init = "expr" => s.statements[1].k = "Expression" /\ s.statements[1].expr.k = "Assign"
    /\ LET while == s.statements[Len(s.statements)]
       IN /\ while.k = "While"
          /\ IF cond = "none"
             THEN while.condition.k = "Literal" /\ while.condition.value = LitBool(TRUE)
             ELSE while.condition.k = "Binary" /\ while.condition.operator = "Less"
          /\ while.body.k = "Block"
          /\ Len(while.body.statements) = IF incr = "none" THEN 1 ELSE 2
          /\ while.body.statements[1].k = "Print"
          /\ incr = "some" =>
                /\ while.body.statements[2].k = "Expression"
                /\ while.body.statements[2].expr.k = "Assign"

\* C13: every for (init; cond; incr) body, each part present or omitted,
\* parses without error into Block[init, While(cond or true, Block[body,
\* Expression(incr)])].
C13_ForDesugarsToWhile ==
    \A init \in DOMAIN ForInits, cond \in DOMAIN ForConds, incr \in DOMAIN ForIncrs :
        (src = ForSource(init, cond, incr) /\ ParsedWhole) =>
            /\ parser.errors = <<>>
            /\ Len(statements) = 1
            /\ ForDesugared(statements[1], init, cond, incr)

\* for (var i = 0; i < 1; i = i + 1) print i; was rejected, nothing was built.
C13_ForIsRejected ==
    /\ src = ForSource("var", "some", "some")
    /\ ParsedWhole
    /\ parser.errors # <<>>
    /\ \A k \in DOMAIN statements : statements[k].k = "Print"

\* s is if (name) print 1; with the given else branch.
IsIfPrint(s, name, else_branch) ==
    /\ s.k = "If"
    /\ s.condition.k = "Var" /\ s.condition.var.ident.name = name
    /\ s.then_branch.k = "Print" /\ s.then_branch.expr.value = LitNumber(1)
    /\ s.else_branch = else_branch

\* s is print 2;
IsPrintTwo(s) == s.k = "Print" /\ s.expr.k = "Literal" /\ s.expr.value = LitNumber(2)

\* C14: if (cond) S1 else S2 parses without error into If{cond, S1, Some(S2)},
\* an else belongs to the nearest if, and without else the else branch is None.
C14_IfElseParses ==
    /\ (src = IfSource /\ ParsedWhole) =>
          /\ parser.errors = <<>>
          /\ Len(statements) = 1
          /\ IsIfPrint(statements[1], "a", None)
    /\ (src = IfElseSource /\ ParsedWhole) =>
          /\ parser.errors = <<>>
          /\ Len(statements) = 1
          /\ statements[1].k = "If"
          /\ is_some(statements[1].else_branch)
          /\ IsPrintTwo(unwrap(statements[1].else_branch))
          /\ IsIfPrint(statements[1], "a", statements[1].else_branch)
    /\ (src = NestedIfElseSource /\ ParsedWhole) =>
          /\ parser.errors = <<>>
          /\ Len(statements) = 1
          /\ statements[1].k = "If"
          /\ statements[1].else_branch = None
          /\ statements[1].then_branch.k = "If"
          /\ is_some(statements[1].then_branch.else_branch)
          /\ IsPrintTwo(unwrap(statements[1].then_branch.else_branch))
          /\ IsIfPrint(statements[1].then_branch, "b", statements[1].then_branch.else_branch)

\* if (a) print 1; else print 2; was rejected at the else and left no If:
\* print 2; became a statement of its own.
C14_ElseIsRejected ==
    /\ src = IfElseSource
    /\ ParsedWhole
    /\ parser.errors = <<UnexpectedToken("else", Span(8, 8))>>
    /\ Len(statements) = 1
    /\ IsPrintTwo(statements[1])

\* The errors of the given kind among the recorded parse errors.
ErrorsOfKind(kind) == {i \in DOMAIN parser.errors : parser.errors[i].e = kind}

\* The function declaration of the first statement, for either head.
DeclaredFunction(head) ==
    IF head = "fun" THEN statements[1] ELSE statements[1].methods[1]

\* C15: a function or method with exactly 255 parameters records no
\* TooManyParameters; with 256 or more it records exactly one, and the body and
\* the statements after the declaration are still parsed and their errors
\* reported.
C15_TooManyParametersOnceAndOn ==
    (Len(src) > MaxParameters /\ ParsedWhole) =>
        \A head \in DOMAIN ParamHeads, n \in ParamCounts,
           body \in DOMAIN ParamBodies, rest \in DOMAIN ParamRests :
            src = ParamSource(head, n, body, rest) =>
                /\ Cardinality(ErrorsOfKind("TooManyParameters")) = IF n > 255 THEN 1 ELSE 0
                /\ Cardinality(ErrorsOfKind("InvalidLeftValue")) = IF body = "bad" THEN 1 ELSE 0
                /\ Cardinality(ErrorsOfKind("ExpectStructure")) = IF rest = "bad" THEN 1 ELSE 0
                /\ Len(parser.errors) = Cardinality(ErrorsOfKind("TooManyParameters"))
                                        + Cardinality(ErrorsOfKind("InvalidLeftValue"))
                                        + Cardinality(ErrorsOfKind("ExpectStructure"))
                /\ Len(statements) = IF rest = "bad" THEN 1 ELSE 2
                /\ statements[1].k = IF head = "fun" THEN "FnDecl" ELSE "ClassDecl"
                /\ Len(DeclaredFunction(head).params) = n
                /\ DeclaredFunction(head).params[n].ident.name = Param(n)
                /\ Len(DeclaredFunction(head).body) = IF body = "bad" THEN 0 ELSE 1
                /\ rest = "good" => statements[2].k = "Print"

\* A method with 256 parameters: one TooManyParameters, then the error of its
\* body, then the error of the next statement.
C15_MethodWith256Parameters ==
    /\ src = ParamSource("method", 256, "bad", "bad")
    /\ ParsedWhole
    /\ Len(parser.errors) = 3
    /\ parser.errors[1].e = "TooManyParameters"
    /\ parser.errors[2].e = "InvalidLeftValue"
    /\ parser.errors[3].e = "ExpectStructure"
    /\ statements[1].k = "ClassDecl"

\* C16: every call of next_token returns a token, none aborts, and once Eof
\* was returned every later call returns Eof.
C16_NextTokenAlwaysReturns ==
    /\ ~lexed.panicked
    /\ \A i, j \in DOMAIN lexed.tokens :
          (i < j /\ lexed.tokens[i].token_type.t = "Eof") => lexed.tokens[j].token_type.t = "Eof"

\* 1"\a": the number was returned, then the call at the string panicked.
C16_UnknownEscapePanics ==
    /\ lexer.src = <<"1", "\"", "\\", "a", "\"">>
    /\ lexed.panicked
    /\ Len(lexed.tokens) = 1

\* The token that next_token returns first on the text alone.
FirstTokenOf(text) == Lexer_next_token(Lexer_new(text))

\* C17: the span of a number or string token is the interval [start, end) of
\* the text that, lexed alone, gives the same literal.
C17_LiteralSpanLexesToTheLiteral ==
    \A i \in DOMAIN lexed.tokens :
        lexed.tokens[i].token_type.t \in {"Number", "String"} =>
            /\ lexed.tokens[i].span.start <= lexed.tokens[i].span.end
            /\ lexed.tokens[i].span.end <= Len(lexer.src)
            /\ FirstTokenOf(SubSeq(lexer.src, lexed.tokens[i].span.start + 1,
                                   lexed.tokens[i].span.end)).st = "ok"
            /\ FirstTokenOf(SubSeq(lexer.src, lexed.tokens[i].span.start + 1,
                                   lexed.tokens[i].span.end)).val.token_type
                   = lexed.tokens[i].token_type

\* 12.50 7: the number 12.5 was returned with the span from 0 to 0.
C17_NumberWithEmptySpan ==
    /\ lexer.src = <<"1", "2", ".", "5", "0", " ", "7">>
    /\ Len(lexed.tokens) >= 1
    /\ lexed.tokens[1] = Token(TokenType("Number", <<125, 1>>), Span(0, 0))

\* The number of characters of text up to the end of the block comment that is
\* open at level depth after i characters: the markers are read from left to
\* right, `/*` adds one to the depth and `*/` takes one off, and the comment
\* ends where the depth is 0.  It is 0 when the text ends first.
RECURSIVE CommentEnd(_, _, _)
CommentEnd(text, i, depth) ==
    CASE depth = 0 -> i
      [] i >= Len(text) -> 0
      [] i + 2 <= Len(text) /\ text[i + 1] = "/" /\ text[i + 2] = "*" ->
            CommentEnd(text, i + 2, depth + 1)
      [] i + 2 <= Len(text) /\ text[i + 1] = "*" /\ text[i + 2] = "/" ->
            CommentEnd(text, i + 2, depth - 1)
      [] OTHER -> CommentEnd(text, i + 1, depth)

StartsWithComment(text) == Len(text) >= 2 /\ text[1] = "/" /\ text[2] = "*"

\* What follows the comment that text starts with.
AfterComment(text) == SubSeq(text, CommentEnd(text, 2, 1) + 1, Len(text))

\* C18: a block comment ends at the `*/` that brings the depth to 0, and
\* lexing resumes behind it; when the text ends at a depth above 0, next_token
\* returns UnterminatedComment and then Eof.
C18_CommentEndsAtDepthZero ==
    (StartsWithComment(lexer.src) /\ (lexed.tokens # <<>> \/ lexed.panicked)) =>
        IF CommentEnd(lexer.src, 2, 1) = 0
        THEN /\ ~lexed.panicked
             /\ lexed.tokens[1].token_type.t = "UnterminatedComment"
             /\ \A i \in DOMAIN lexed.tokens : i > 1 => lexed.tokens[i].token_type.t = "Eof"
        ELSE IF FirstTokenOf(AfterComment(lexer.src)).st = "panic"
        THEN lexed.panicked /\ lexed.tokens = <<>>
        ELSE /\ lexed.tokens # <<>>
             /\ lexed.tokens[1].token_type = FirstTokenOf(AfterComment(lexer.src)).val.token_type
             /\ lexed.tokens[1].token_type.t # "UnterminatedComment" =>
                   lexed.tokens[1].span.start =
                       CommentEnd(lexer.src, 2, 1)
                       + FirstTokenOf(AfterComment(lexer.src)).val.span.start

\* /*a/*b*/c*/d: the first token is the identifier d, at 11.
C18_NestedCommentSkipped ==
    /\ lexer.src = <<"/", "*", "a", "/", "*", "b", "*", "/", "c", "*", "/", "d">>
    /\ Len(lexed.tokens) = 2
    /\ lexed.tokens[1].token_type = TokenType("Identifier", "d")
    /\ lexed.tokens[1].span.start = 11
    /\ lexed.tokens[2].token_type.t = "Eof"

\* The names that the statements of stmts declare, nested statements aside.
DeclaredIn(stmts) ==
    {stmts[i].var.ident.name : i \in {j \in DOMAIN stmts : stmts[j].k \in {"Var", "FnDecl", "ClassDecl"}}}

ParameterNames(function) == {function.params[i].ident.name : i \in DOMAIN function.params}

\* Every block and every function within the statement s counts its own names.
RECURSIVE LocalsCounted(_)
LocalsCounted(s) ==
    CASE s.k = "Block" ->
            /\ s.num_of_locals = Cardinality(DeclaredIn(s.statements))
            /\ \A i \in DOMAIN s.statements : LocalsCounted(s.statements[i])
      [] s.k = "FnDecl" ->
            /\ s.num_of_locals = Cardinality(ParameterNames(s) \cup DeclaredIn(s.body))
            /\ \A i \in DOMAIN s.body : LocalsCounted(s.body[i])
      [] s.k = "ClassDecl" -> \A i \in DOMAIN s.methods : LocalsCounted(s.methods[i])
      [] s.k = "If" ->
            /\ LocalsCounted(s.then_branch)
            /\ is_some(s.else_branch) => LocalsCounted(unwrap(s.else_branch))
      [] s.k = "While" -> LocalsCounted(s.body)
      [] OTHER -> TRUE

Resolved == "resolver" \in ran

\* C19: after resolve, num_of_locals of every block is the number of distinct
\* names its own var, fun and class statements declare, and num_of_locals of
\* every function is the number of distinct names among its parameters and the
\* declarations of its body; what nested blocks and functions declare is not
\* counted.
C19_LocalsAreCounted ==
    Resolved => \A i \in DOMAIN ast : LocalsCounted(ast[i])

\* The nested scopes were resolved: the outer block counts a, b, f and A, the
\* function f counts p, q and r, the method m counts x and y.
C19_NestedScopesCounted ==
    /\ src = NestedScopesSource
    /\ Resolved
    /\ rerrors = <<>>
    /\ ast[1].num_of_locals = 4
    /\ ast[1].statements[3].num_of_locals = 1
    /\ ast[1].statements[4].num_of_locals = 3
    /\ ast[1].statements[4].body[2].num_of_locals = 1
    /\ ast[1].statements[5].methods[1].num_of_locals = 2

\* A variable that is named in the set of names enclosing is bound.
BoundIf(var, enclosing) == var.ident.name \in enclosing => is_some(var.target)

\* Every variable in the expression e that is named in enclosing is bound.
RECURSIVE ExprBound(_, _)
ExprBound(e, enclosing) ==
    CASE e.k = "Var" -> BoundIf(e.var, enclosing)
      [] e.k = "Assign" -> BoundIf(e.var, enclosing) /\ ExprBound(e.value, enclosing)
      [] e.k = "Group" -> ExprBound(e.expr, enclosing)
      [] e.k = "Unary" -> ExprBound(e.operand, enclosing)
      [] e.k = "Binary" -> ExprBound(e.left, enclosing) /\ ExprBound(e.right, enclosing)
      [] e.k = "Ternary" ->
            /\ ExprBound(e.condition, enclosing)
            /\ ExprBound(e.truthy, enclosing)
            /\ ExprBound(e.falsy, enclosing)
      [] e.k = "FnCall" ->
            /\ ExprBound(e.callee, enclosing)
            /\ \A i \in DOMAIN e.arguments : ExprBound(e.arguments[i], enclosing)
      [] e.k = "Get" -> ExprBound(e.object, enclosing)
      [] e.k = "Set" -> ExprBound(e.target.object, enclosing) /\ ExprBound(e.value, enclosing)
      [] OTHER -> TRUE

\* Every variable in the statement s that is named in enclosing, or in a scope
\* of s around it, is bound.
RECURSIVE StmtBound(_, _)
StmtBound(s, enclosing) ==
    CASE s.k \in {"Print", "Expression"} -> ExprBound(s.expr, enclosing)
      [] s.k = "Var" ->
            /\ BoundIf(s.var, enclosing)
            /\ is_some(s.initializer) => ExprBound(unwrap(s.initializer), enclosing)
      [] s.k = "Return" -> is_some(s.expr) => ExprBound(unwrap(s.expr), enclosing)
      [] s.k = "Block" ->
            \A i \in DOMAIN s.statements :
                StmtBound(s.statements[i], enclosing \cup DeclaredIn(s.statements))
      [] s.k = "FnDecl" ->
            /\ BoundIf(s.var, enclosing)
            /\ \A i \in DOMAIN s.body :
                  StmtBound(s.body[i], enclosing \cup ParameterNames(s) \cup DeclaredIn(s.body))
      [] s.k = "ClassDecl" ->
            /\ BoundIf(s.var, enclosing)
            /\ \A i \in DOMAIN s.methods :
                  \A j \in DOMAIN s.methods[i].body :
                      StmtBound(s.methods[i].body[j],
                                enclosing \cup ParameterNames(s.methods[i])
                                    \cup DeclaredIn(s.methods[i].body))
      [] s.k = "If" ->
            /\ ExprBound(s.condition, enclosing)
            /\ StmtBound(s.then_branch, enclosing)
            /\ is_some(s.else_branch) => StmtBound(unwrap(s.else_branch), enclosing)
      [] s.k = "While" -> ExprBound(s.condition, enclosing) /\ StmtBound(s.body, enclosing)
      [] OTHER -> TRUE

\* C20: after a resolve without errors, every variable whose name is declared
\* as a parameter or local of a function or block around it has a target; a
\* variable without target names nothing that a scope around it declares.
C20_LocalNamesAreBound ==
    (Resolved /\ rerrors = <<>>) => \A i \in DOMAIN ast : StmtBound(ast[i], {})

\* fun f() { print a; var a = 1; print a; } resolved without error: the first
\* a has no target, the declared a and the second use have slot 0.
C20_UseBeforeDeclarationIsGlobal ==
    /\ src = UseBeforeDeclarationSource
    /\ Resolved
    /\ rerrors = <<>>
    /\ ast[1].body[1].expr.var.target = None
    /\ ast[1].body[2].var.target = Some(IdentTarget(0, 0))
    /\ ast[1].body[3].expr.var.target = Some(IdentTarget(0, 0))

\* The expression e and every expression within it.
RECURSIVE SubExprs(_)
SubExprs(e) ==
    {e} \cup
    CASE e.k = "Binary" -> SubExprs(e.left) \cup SubExprs(e.right)
      [] e.k = "Unary" -> SubExprs(e.operand)
      [] e.k = "Group" -> SubExprs(e.expr)
      [] e.k = "Ternary" -> SubExprs(e.condition) \cup SubExprs(e.truthy) \cup SubExprs(e.falsy)
      [] e.k = "Assign" -> SubExprs(e.value)
      [] e.k = "FnCall" ->
            SubExprs(e.callee) \cup UNION {SubExprs(e.arguments[i]) : i \in DOMAIN e.arguments}
      [] e.k = "Get" -> SubExprs(e.object)
      [] e.k = "Set" -> SubExprs(e.target.object) \cup SubExprs(e.value)
      [] OTHER -> {}

\* Every expression within the statement s.
RECURSIVE ExprsIn(_)
ExprsIn(s) ==
    CASE s.k \in {"Print", "Expression"} -> SubExprs(s.expr)
      [] s.k = "Var" -> IF is_some(s.initializer) THEN SubExprs(unwrap(s.initializer)) ELSE {}
      [] s.k = "Return" -> IF is_some(s.expr) THEN SubExprs(unwrap(s.expr)) ELSE {}
      [] s.k = "Block" -> UNION {ExprsIn(s.statements[i]) : i \in DOMAIN s.statements}
      [] s.k = "FnDecl" -> UNION {ExprsIn(s.body[i]) : i \in DOMAIN s.body}
      [] s.k = "ClassDecl" -> UNION {ExprsIn(s.methods[i]) : i \in DOMAIN s.methods}
      [] s.k = "If" ->
            SubExprs(s.condition) \cup ExprsIn(s.then_branch)
                \cup (IF is_some(s.else_branch) THEN ExprsIn(unwrap(s.else_branch)) ELSE {})
      [] s.k = "While" -> SubExprs(s.condition) \cup ExprsIn(s.body)
      [] OTHER -> {}

ExprsOfAst == UNION {ExprsIn(ast[i]) : i \in DOMAIN ast}

IsThis(e) == e.k = "Var" /\ e.var.ident.name = "this"

\* A call super.method(this, ...): `this` is written where `super` is.
IsSuperCallOnThis(e) ==
    /\ e.k = "FnCall"
    /\ e.callee.k = "Super"
    /\ e.arguments # <<>>
    /\ IsThis(e.arguments[1])

ResolvedClean == Resolved /\ rerrors = <<>>

\* C21: after a resolve without errors every Super expression has target
\* (s, 0) with s >= 1, and a `this` written at the same place has target
\* (s - 1, 0): the scope of `this` lies immediately inside the scope of
\* `super`, however deep in blocks and functions of the method.
C21_ThisIsOneScopeInsideSuper ==
    ResolvedClean =>
        \A e \in ExprsOfAst :
            /\ e.k = "Super" =>
                  /\ is_some(e.var.target)
                  /\ unwrap(e.var.target).scope_count >= 1
                  /\ unwrap(e.var.target).index = 0
            /\ IsSuperCallOnThis(e) =>
                  e.arguments[1].var.target =
                      Some(IdentTarget(unwrap(e.callee.var.target).scope_count - 1, 0))

\* The subclass was resolved: super.m(this) directly in a method has super at
\* (2, 0) and this at (1, 0); inside a function in a block of a method they
\* are at (4, 0) and (3, 0).
C21_SuperResolvedAtTwoDepths ==
    /\ src = SuperInMethodSource
    /\ ResolvedClean
    /\ \E e \in ExprsOfAst :
          /\ IsSuperCallOnThis(e)
          /\ e.callee.var.target = Some(IdentTarget(2, 0))
          /\ e.arguments[1].var.target = Some(IdentTarget(1, 0))
    /\ \E e \in ExprsOfAst :
          /\ IsSuperCallOnThis(e)
          /\ e.callee.var.target = Some(IdentTarget(4, 0))
          /\ e.arguments[1].var.target = Some(IdentTarget(3, 0))

\* C22: a second resolve of a tree that a first resolve accepted without error
\* reports no error and returns the tree as it is: no target and no
\* num_of_locals changes.
C22_ResolveTwiceChangesNothing ==
    ResolvedClean => Resolver_resolve(ast) = [errors |-> <<>>, ast |-> ast]

\* A tree with locals, enclosing locals, a global and counted scopes was
\* resolved without error: in g of f, p is one scope out and z is global.
C22_ResolvedLocalsAndGlobals ==
    /\ src = UsesAfterDeclarationSource
    /\ ResolvedClean
    /\ ast[1].num_of_locals = 3
    /\ ast[1].body[4].body[1].expr.var.target = Some(IdentTarget(1, 0))
    /\ ast[1].body[4].body[3].expr.var.target = None
    /\ Resolver_resolve(ast).ast = ast

\* The return statements within the statement s, each with the kind of the
\* innermost function or method around it ("None" outside all of them).
RECURSIVE ReturnsIn(_, _)
ReturnsIn(s, around) ==
    CASE s.k = "Return" -> {[span |-> s.span, around |-> around, valued |-> is_some(s.expr)]}
      [] s.k = "Block" -> UNION {ReturnsIn(s.statements[i], around) : i \in DOMAIN s.statements}
      [] s.k = "FnDecl" -> UNION {ReturnsIn(s.body[i], "Function") : i \in DOMAIN s.body}
      [] s.k = "ClassDecl" ->
            UNION {UNION {ReturnsIn(s.methods[m].body[i],
                                    IF s.methods[m].var.ident.name = "init"
                                    THEN "Initializer" ELSE "Method") :
                              i \in DOMAIN s.methods[m].body} :
                       m \in DOMAIN s.methods}
      [] s.k = "If" ->
            ReturnsIn(s.then_branch, around)
                \cup (IF is_some(s.else_branch) THEN ReturnsIn(unwrap(s.else_branch), around)
                      ELSE {})
      [] s.k = "While" -> ReturnsIn(s.body, around)
      [] OTHER -> {}

ReturnsOfAst == UNION {ReturnsIn(ast[i], "None") : i \in DOMAIN ast}

ResolverErrorsOfKind(kind) == {i \in DOMAIN rerrors : rerrors[i].e = kind}

\* The errors of the kind are one for each of the spans, and no others.
ReportedOnceAt(kind, spans) ==
    /\ {rerrors[i].span : i \in ResolverErrorsOfKind(kind)} = spans
    /\ Cardinality(ResolverErrorsOfKind(kind)) = Cardinality(spans)

\* C23: a return outside every function and method is reported as
\* InvalidReturn; a return with a value directly in a method named init is
\* reported as ReturnInConstructor; a bare return in init, a return in a
\* function or method nested in init, and every other return is not reported.
C23_ReturnDiagnostics ==
    Resolved =>
        /\ ReportedOnceAt("InvalidReturn", {x.span : x \in {y \in ReturnsOfAst : y.around = "None"}})
        /\ ReportedOnceAt("ReturnInConstructor",
                          {x.span : x \in {y \in ReturnsOfAst :
                                              y.around = "Initializer" /\ y.valued}})

\* The class with returns in init and in what is nested in init was
\* resolved: of the seven returns only the value returned by the inner init
\* and the return outside are reported.
C23_ReturnsInAndAroundInit ==
    /\ src = ReturnNestedInInitSource
    /\ Resolved
    /\ Cardinality(ReturnsOfAst) = 6
    /\ Cardinality(ResolverErrorsOfKind("ReturnInConstructor")) = 1
    /\ Cardinality(ResolverErrorsOfKind("InvalidReturn")) = 1
    /\ Len(rerrors) = 2

\* The places of the `this` references within the expression e.
ThisSpansOf(e) ==
    {x.var.ident.span : x \in {y \in SubExprs(e) : y.k \in {"Var", "Assign"}
                                                     /\ y.var.ident.name = "this"}}

\* The places of the `this` references within the statement s that are
\* outside every method body; inside says whether s itself is in one.
RECURSIVE ThisOutsideMethods(_, _)
ThisOutsideMethods(s, inside) ==
    CASE s.k \in {"Print", "Expression"} -> IF inside THEN {} ELSE ThisSpansOf(s.expr)
      [] s.k = "Var" ->
            IF inside \/ ~is_some(s.initializer) THEN {} ELSE ThisSpansOf(unwrap(s.initializer))
      [] s.k = "Return" -> IF inside \/ ~is_some(s.expr) THEN {} ELSE ThisSpansOf(unwrap(s.expr))
      [] s.k = "Block" ->
            UNION {ThisOutsideMethods(s.statements[i], inside) : i \in DOMAIN s.statements}
      [] s.k = "FnDecl" -> UNION {ThisOutsideMethods(s.body[i], inside) : i \in DOMAIN s.body}
      [] s.k = "ClassDecl" -> {}
      [] s.k = "If" ->
            (IF inside THEN {} ELSE ThisSpansOf(s.condition))
                \cup ThisOutsideMethods(s.then_branch, inside)
                \cup (IF is_some(s.else_branch)
                      THEN ThisOutsideMethods(unwrap(s.else_branch), inside) ELSE {})
      [] s.k = "While" ->
            (IF inside THEN {} ELSE ThisSpansOf(s.condition))
                \cup ThisOutsideMethods(s.body, inside)
      [] OTHER -> {}

ThisOutsideMethodsOfAst == UNION {ThisOutsideMethods(ast[i], FALSE) : i \in DOMAIN ast}

\* C24: the `this` references that the resolver reports as InvalidThis are
\* those outside every method body, at top level or in a function declared
\* outside any class; a `this` inside a method body is never reported.
C24_ThisOutsideMethodsIsReported ==
    Resolved => ReportedOnceAt("InvalidThis", ThisOutsideMethodsOfAst)

\* fun f() { print this; } was resolved without any error: the `this` in the
\* function is taken for a global variable.
C24_ThisInFunctionNotReported ==
    /\ src = ThisInFunctionSource
    /\ Resolved
    /\ rerrors = <<>>
    /\ ThisOutsideMethodsOfAst # {}
    /\ ast[1].body[1].expr.var.target = None

\* The expressions within the statement s that are outside every function
\* and class.
RECURSIVE ExprsOutsideFunctions(_)
ExprsOutsideFunctions(s) ==
    CASE s.k \in {"Print", "Expression"} -> SubExprs(s.expr)
      [] s.k = "Var" -> IF is_some(s.initializer) THEN SubExprs(unwrap(s.initializer)) ELSE {}
      [] s.k = "Return" -> IF is_some(s.expr) THEN SubExprs(unwrap(s.expr)) ELSE {}
      [] s.k = "Block" ->
            UNION {ExprsOutsideFunctions(s.statements[i]) : i \in DOMAIN s.statements}
      [] s.k = "If" ->
            SubExprs(s.condition) \cup ExprsOutsideFunctions(s.then_branch)
                \cup (IF is_some(s.else_branch)
                      THEN ExprsOutsideFunctions(unwrap(s.else_branch)) ELSE {})
      [] s.k = "While" -> SubExprs(s.condition) \cup ExprsOutsideFunctions(s.body)
      [] OTHER -> {}

ExprsOutsideFunctionsOfAst == UNION {ExprsOutsideFunctions(ast[i]) : i \in DOMAIN ast}

ReportedAt(kind) == {rerrors[i].span : i \in ResolverErrorsOfKind(kind)}

\* C25: resolve visits every statement and every expression, also behind
\* errors and inside a construct that was itself diagnosed: every return,
\* every `this` and every super outside all functions and classes has its
\* error in the returned list.
C25_EveryDiagnosableIsReported ==
    Resolved =>
        /\ {x.span : x \in {y \in ReturnsOfAst : y.around = "None"}} \subseteq
               ReportedAt("InvalidReturn")
        /\ {e.var.ident.span : e \in {x \in ExprsOutsideFunctionsOfAst :
                                         x.k \in {"Var", "Assign"}
                                         /\ x.var.ident.name = "this"}} \subseteq
               ReportedAt("InvalidThis")
        /\ {e.var.ident.span : e \in {x \in ExprsOutsideFunctionsOfAst : x.k = "Super"}} \subseteq
               ReportedAt("InvalidSuper")

\* `return this;` at top level was resolved: InvalidReturn is the only error,
\* the `this` of the returned expression was not visited.
C25_ValueOfInvalidReturnSkipped ==
    /\ src = ReturnThisSource
    /\ Resolved
    /\ Len(rerrors) = 1
    /\ rerrors[1].e = "InvalidReturn"
    /\ IsThis(unwrap(ast[1].expr))

\* The op code of each variant and the binary64 format of the numbers, most
\* significant byte first, written out.
OpCodes ==
    [LoadNumber |-> 0, LoadString |-> 1, LoadBool |-> 2, LoadNil |-> 3, Negative |-> 4,
     Not |-> 5, Plus |-> 6, Minus |-> 7, Multiply |-> 8, Divide |-> 9, And |-> 10,
     Or |-> 11, Greater |-> 12, GreaterEqual |-> 13, Less |-> 14, LessEqual |-> 15,
     Equal |-> 16, NotEqual |-> 17]
Binary64(n) ==
    CASE n = 0 -> <<0, 0, 0, 0, 0, 0, 0, 0>>
      [] n = 1 -> <<63, 240, 0, 0, 0, 0, 0, 0>>
      [] n = 2 -> <<64, 0, 0, 0, 0, 0, 0, 0>>
      [] n = 3 -> <<64, 8, 0, 0, 0, 0, 0, 0>>
      [] n = 0 - 1 -> <<191, 240, 0, 0, 0, 0, 0, 0>>
      [] n = 0 - 2 -> <<192, 0, 0, 0, 0, 0, 0, 0>>
      [] n = 256 -> <<64, 112, 0, 0, 0, 0, 0, 0>>
Reversed(s) == [k \in 1..Len(s) |-> s[Len(s) + 1 - k]]
RECURSIVE LittleEndianValue(_)
LittleEndianValue(bytes) ==
    IF bytes = <<>> THEN 0 ELSE Head(bytes) + 256 * LittleEndianValue(Tail(bytes))
IsOperandOf(bytes, op) ==
    /\ \A k \in DOMAIN bytes : bytes[k] \in 0..255
    /\ CASE op.ident = "LoadNumber" -> bytes = Reversed(Binary64(op.args[1]))
         [] op.ident = "LoadString" -> Len(bytes) = 4 /\ LittleEndianValue(bytes) = op.args[1]
         [] op.ident = "LoadBool" -> bytes = <<IF op.args[1] THEN 1 ELSE 0>>
         [] OTHER -> bytes = <<>>
OperandWidth(op) ==
    CASE op.ident = "LoadNumber" -> 8
      [] op.ident = "LoadString" -> 4
      [] op.ident = "LoadBool" -> 1
      [] OTHER -> 0
RECURSIVE IsEncodingOf(_, _)
IsEncodingOf(bytes, ops) ==
    IF ops = <<>> THEN bytes = <<>>
    ELSE /\ Len(bytes) >= 1 + OperandWidth(Head(ops))
         /\ bytes[1] = OpCodes[Head(ops).ident]
         /\ IsOperandOf(SubSeq(bytes, 2, 1 + OperandWidth(Head(ops))), Head(ops))
         /\ IsEncodingOf(SubSeq(bytes, 2 + OperandWidth(Head(ops)), Len(bytes)), Tail(ops))

\* C26: the encode loop has written, for each operation of the slice so far
\* and in its order, the op code of the variant (its position in the enum)
\* and then its operand in little-endian, with nothing in between; flush
\* returns these bytes for the whole slice and leaves the writer empty.
C26_EncodedBytes ==
    /\ flushed = None => IsEncodingOf(writer.buf, SubSeq(operations, 1, encoded))
    /\ is_some(flushed) =>
        /\ IsEncodingOf(unwrap(flushed), operations)
        /\ writer.buf = <<>>

\* [LoadNumber(1.0), LoadString(StringSymbol(258))] was encoded and flushed.
C26_NumberAndSymbolFlushed ==
    /\ operations = <<[ident |-> "LoadNumber", args |-> <<1>>],
                      [ident |-> "LoadString", args |-> <<258>>]>>
    /\ encoded = 2
    /\ flushed = Some(<<0, 0, 0, 0, 0, 0, 0, 240, 63, 1, 2, 1, 0, 0>>)
    /\ writer = OpWriter_new

\* C27: a run of the program on a file ends with the exit code 0 exactly
\* when parsing, resolution and execution reported no error.
C27_ExitCodeTellsErrors ==
    Done /\ mode = "run" /\ is_some(main_exit_code) =>
        (main_exit_code = Some(0) <=> outcome.st = "ok")

\* Runs that ended on a runtime error with the exit code 0.
C27_RuntimeErrorEndsWithZero ==
    /\ Done
    /\ mode = "run"
    /\ ran = {"parser", "resolver", "interpreter"}
    /\ outcome.st = "err"
    /\ main_exit_code = Some(0)

\* The scopes around statement i of the statements stmts of a block or body,
\* innermost first: the names declared so far are in the first one.
ScopesAt(scopes, stmts, i) == [scopes EXCEPT ![1] = @ \cup DeclaredIn(SubSeq(stmts, 1, i))]

\* The variable var, read in the scopes given, counts the scopes from the
\* innermost one to the one that declares its name.
CountedFrom(var, scopes) ==
    \A k \in DOMAIN scopes :
        (var.ident.name \in scopes[k] /\ \A j \in 1..(k - 1) : var.ident.name \notin scopes[j])
            => is_some(var.target) /\ unwrap(var.target).scope_count = k - 1

\* In the statement s, standing in the scopes given, every superclass that
\* names a local variable counts its scopes from the scope of its class
\* declaration.
RECURSIVE SuperClassesCounted(_, _)
SuperClassesCounted(s, scopes) ==
    CASE s.k = "ClassDecl" ->
            /\ is_some(s.super_class) => CountedFrom(unwrap(s.super_class), scopes)
            /\ \A m \in DOMAIN s.methods : \A i \in DOMAIN s.methods[m].body :
                  SuperClassesCounted(
                      s.methods[m].body[i],
                      ScopesAt(<<ParameterNames(s.methods[m]), {"this"}>>
                                   \o (IF is_some(s.super_class) THEN <<{"super"}>> ELSE <<>>)
                                   \o scopes,
                               s.methods[m].body, i))
      [] s.k = "FnDecl" ->
            \A i \in DOMAIN s.body :
                SuperClassesCounted(s.body[i],
                                    ScopesAt(<<ParameterNames(s)>> \o scopes, s.body, i))
      [] s.k = "Block" ->
            \A i \in DOMAIN s.statements :
                SuperClassesCounted(s.statements[i],
                                    ScopesAt(<<{}>> \o scopes, s.statements, i))
      [] s.k = "If" ->
            /\ SuperClassesCounted(s.then_branch, scopes)
            /\ is_some(s.else_branch) => SuperClassesCounted(unwrap(s.else_branch), scopes)
      [] s.k = "While" -> SuperClassesCounted(s.body, scopes)
      [] OTHER -> TRUE

\* C28: after a resolve without errors, the target of a superclass reference
\* counts its scopes from the scope in which the class declaration stands,
\* the frame in which the interpreter evaluates the superclass.
C28_SuperClassCountedFromDeclaration ==
    ResolvedClean => \A i \in DOMAIN ast : SuperClassesCounted(ast[i], <<>>)

\* { class A { } class B < A { } } resolved without error: A and B are slots
\* 0 and 1 of the block, and the superclass A of B has the target (1, 0),
\* counted from the scope of `super`.
C28_SuperClassCountedFromSuperScope ==
    /\ src = SuperClassInBlockSource
    /\ ResolvedClean
    /\ ast[1].statements[1].var.target = Some(IdentTarget(0, 0))
    /\ ast[1].statements[2].var.target = Some(IdentTarget(0, 1))
    /\ unwrap(ast[1].statements[2].super_class).target = Some(IdentTarget(1, 0))

\* The panics of a read or write of a local variable: a missing enclosing
\* frame or an index outside the frame.
EnvironmentPanics ==
    {"Environment::get", "Environment::assign", "get_var: unwrap on None",
     "assign_to: unwrap on None"}

\* C29: in a program the resolver accepted, every read and write of a local
\* variable finds its frame and an index within it, and finds the slot the
\* resolver allocated to the name: the superclass of a class declared in a
\* block or function, named after a class declared there, is read as that
\* class.
C29_LocalAccessesFindTheirSlots ==
    ("interpreter" \in ran /\ rerrors = <<>>) =>
        /\ ~(outcome.st = "panic" /\ outcome.val \in EnvironmentPanics)
        /\ src \in LocalSuperClassProgs =>
              ~(outcome.st = "err" /\ outcome.val.e = "InvalidSuperClass")

\* { class A { } class B < A { } print B; } was accepted by the resolver, and
\* the read of the superclass A left the frames of the interpreter.
C29_SuperClassReadLeavesFrames ==
    /\ src = SuperClassInBlockProg
    /\ mode = "run"
    /\ Done
    /\ rerrors = <<>>
    /\ ran = {"parser", "resolver", "interpreter"}
    /\ outcome = [st |-> "panic", val |-> "Environment::get"]
    /\ interp.out = <<>>

\* The function f is a method bound to an instance by bind_method: a method
\* of a class has its declaration, and its closure is a frame of its own.
IsBoundMethod(f) ==
    \E c \in DOMAIN interp.classes : \E name \in DOMAIN interp.classes[c].methods :
        /\ interp.classes[c].methods[name].declaration = f.declaration
        /\ interp.classes[c].methods[name].closure # f.closure

\* C30: slot 0 of the frame bind_method creates holds the receiver instance
\* whatever the statements of the method do, an assignment with `this` on its
\* left side included, so that visit_super always finds an Instance.
C30_ThisSlotHoldsReceiver ==
    /\ \A k \in DOMAIN interp.functions :
          IsBoundMethod(interp.functions[k]) =>
              interp.frames[interp.functions[k].closure].values[1].t = "Instance"
    /\ ~(outcome.st = "panic" /\ outcome.val = "unreachable")

\* class A { n() { this = 1; print this; } } A().n(); was accepted and ran to
\* its end: the method printed 1, and slot 0 of its frame holds the number.
C30_ThisWasAssigned ==
    /\ src = ThisAssignedProg
    /\ mode = "run"
    /\ Done
    /\ rerrors = <<>>
    /\ outcome.st = "ok"
    /\ interp.out = <<"1">>
    /\ Len(interp.functions) = 1
    /\ IsBoundMethod(interp.functions[1])
    /\ interp.frames[interp.functions[1].closure].values = <<Value_Number(1)>>
====
